---------------------------- MODULE Spec2Model ----------------------------
(***************************************************************************)
(* windermere-bloom-ml: the feature-matrix / label construction engine.    *)
(*                                                                         *)
(* A long-format observation table (site, timestamp, determinand, value)   *)
(* is turned into one row per chlorophyll anchor by FeatureMatrixBuilder:  *)
(* window filter, determinand match, numeric coercion, backward as-of join *)
(* of every predictor, lookback enforcement, missing flags.  FeatureBuilder*)
(* (shifted rolling means) and LabelBuilder (threshold rule) are modelled  *)
(* beside it.                                                              *)
(*                                                                         *)
(* Representation.  A raw cell is [ok, v]: ok = FALSE is a string that     *)
(* pd.to_datetime / pd.to_numeric cannot parse.  Parsed timestamps are day *)
(* numbers, NaT and NaN are the null timestamp and the null number.  The   *)
(* sin/cos seasonality columns are real-valued functions of the timestamp  *)
(* alone and are not carried.                                              *)
(***************************************************************************)
EXTENDS Integers, Sequences, FiniteSets, TLC

VARIABLES
    df,         \* the caller's input table: [cols, rows]
    config,     \* the FeatureMatrixConfig handed to the constructor
    builder,    \* "new" | "ok" | "ValueError": outcome of FeatureMatrixBuilder(...)
    bdf,        \* FeatureMatrixBuilder._df, the builder's view of the table
    artifacts,  \* FeatureMatrixBuilder.artifacts
    feat,       \* what the last build() returned, or that it raised
    prev,       \* what the build() before the last returned
    runs,       \* "none" | "first" | "again": how often build() has run
    series,     \* FeatureBuilder: the time-sorted input column
    fbcfg,      \* FeatureConfig: [chl_lags, chl_rolls, chl_threshold]
    X,          \* FeatureBuilder.build() output
    chl,        \* LabelBuilder: the chl_ugL column of the frame to label
    lcfg,       \* LabelConfig
    labelled,   \* LabelBuilder.build_from_feature_matrix() output
    gate,       \* ViabilityGate.compute_class_balance() output
    files,      \* output_dir: the data file and the .meta.json sidecar of save()
    fpin,       \* two configuration objects of one kind: [kind, a, b]
    fpout,      \* their fingerprints
    srccols,    \* check_feature_parity: the columns of the source frame
    Xs,         \* the features built on the train and on the test slice
    idin,       \* a determinand column and a configured id: [component, cast, target, column]
    idout,      \* the positions of the column that the component selects
    pbin,       \* PersistenceBaseline: the frame given to predict()
    pbout,      \* the BaselineResult of predict()
    smtrain,    \* SeasonalMeanBaseline: the frame given to fit()
    smtest,     \* the frame given to predict()
    smfit,      \* the fitted state: global_p and p_by_month
    smout,      \* the BaselineResult of predict()
    raw,        \* CleanDatasetBuilder: the caller's raw table
    ccfg,       \* CleanConfig
    cleaned,    \* what clean_dataframe returned, or that it raised
    recleaned,  \* what a second clean_dataframe on the same table returned
    eacfg,      \* DataIngestor: EAConfig and the arguments of fetch_observations
    ig,         \* fetch_observations: its locals and the position of the pager
    allrun      \* run_ingestion_all.main: determinands, out_root, manifest_rows

vars == <<df, config, builder, bdf, artifacts, feat, prev, runs,
          series, fbcfg, X, chl, lcfg, labelled, gate, files,
          fpin, fpout, srccols, Xs, idin, idout, pbin, pbout,
          smtrain, smtest, smfit, smout, raw, ccfg, cleaned, recleaned, eacfg, ig, allrun>>

fmVars == <<df, config, builder, bdf, artifacts, feat, prev, runs>>
fbVars == <<series, fbcfg, X>>
lbVars == <<chl, lcfg, labelled, gate>>
svVars == <<files>>
fpVars == <<fpin, fpout>>
paVars == <<srccols, Xs>>
idVars == <<idin, idout>>
pbVars == <<pbin, pbout, smtrain, smtest, smfit, smout>>
clVars == <<raw, ccfg, cleaned, recleaned>>
igVars == <<eacfg, ig, allrun>>
extVars == <<svVars, fpVars, paVars, idVars, pbVars, clVars, igVars>>

---------------------------------------------------------------------------
(* Bounds of the model *)

MaxRows == 3        \* rows of the input table
DaysPerYear == 2    \* length of a calendar year in the model's days
MaxLen == 3         \* rows of a FeatureBuilder / LabelBuilder input frame
MaxPages == 2       \* pages of rows the server holds for one query
MaxRetries == 3     \* largest max_retries of an EAConfig
MaxDets == 3        \* determinands of the catalogue

---------------------------------------------------------------------------
(* Nulls and raw cells *)

NaN == -1
NaT == -1
Absent == -2        \* a column the configuration switched off

Cell(v) == [ok |-> TRUE, v |-> v]
Garbage == [ok |-> FALSE, v |-> 0]      \* a string that is no number / no date
Null == [ok |-> FALSE, v |-> NaN]       \* a cell that is None / NaN already

\* pd.to_datetime(..., errors="coerce")
to_datetime(c) == IF c.ok THEN c.v ELSE NaT

\* pd.to_numeric(..., errors="coerce") on a value cell
to_numeric(c) == IF c.ok THEN c.v ELSE NaN

\* .dt.year
YearOf(t) == t \div DaysPerYear

---------------------------------------------------------------------------
(* Determinand identifiers: a Python int or a Python str of characters.   *)
(* Characters are the digits 0..9; Letter is any non-digit character.     *)

Letter == 10

IntId(n) == [k |-> "int", n |-> n, s |-> <<>>]
StrId(s) == [k |-> "str", n |-> 0, s |-> s]

RECURSIVE Digits(_)
Digits(n) == IF n < 10 THEN <<n>> ELSE Append(Digits(n \div 10), n % 10)

RECURSIVE ParseDigits(_, _)
ParseDigits(s, acc) ==
    IF s = <<>> THEN acc ELSE ParseDigits(Tail(s), 10 * acc + Head(s))

IsNumeral(s) == s # <<>> /\ \A i \in 1..Len(s) : s[i] # Letter

\* str(x)
StrOf(x) == IF x.k = "str" THEN x.s ELSE Digits(x.n)

\* the series side of _normalize_det
NormalizeSeries(cast, x) ==
    CASE cast = "str" -> StrId(StrOf(x))
      [] cast = "int" -> IF x.k = "int" THEN x
                         ELSE IF IsNumeral(x.s) THEN IntId(ParseDigits(x.s, 0))
                         ELSE [k |-> "nan", n |-> 0, s |-> <<>>]
      [] OTHER -> x

\* the target side of _normalize_det; int("abc") raises ValueError
NormalizeTargetRaises(cast, t) == cast = "int" /\ t.k = "str" /\ ~IsNumeral(t.s)

NormalizeTarget(cast, t) ==
    CASE cast = "str" -> StrId(StrOf(t))
      [] cast = "int" -> IF t.k = "int" THEN t ELSE IntId(ParseDigits(t.s, 0))
      [] OTHER -> t

\* det_norm == target_norm, elementwise (NaN equals nothing)
DetMatches(cast, x, t) ==
    LET a == NormalizeSeries(cast, x)
    IN  a.k # "nan" /\ a = NormalizeTarget(cast, t)

---------------------------------------------------------------------------
(* Generic sequence helpers *)

\* the rows of s at the positions in idx, in their order in s (a boolean mask)
RECURSIVE Mask(_, _)
Mask(s, idx) ==
    IF s = <<>> THEN <<>>
    ELSE LET front == Mask(SubSeq(s, 1, Len(s) - 1), idx)
         IN  IF Len(s) \in idx THEN Append(front, s[Len(s)]) ELSE front

MapRows(s, f(_)) == [i \in 1..Len(s) |-> f(s[i])]

SiteTimeLeq(a, b) == a.site < b.site \/ (a.site = b.site /\ a.time <= b.time)

\* insert r after every element that is <= r: ties keep their input order
RECURSIVE InsertSorted(_, _)
InsertSorted(s, r) ==
    IF s = <<>> THEN <<r>>
    ELSE IF SiteTimeLeq(s[Len(s)], r) THEN Append(s, r)
         ELSE Append(InsertSorted(SubSeq(s, 1, Len(s) - 1), r), s[Len(s)])

\* a sort on the timestamp alone
RECURSIVE SortSiteTime_bytime(_)
SortSiteTime_bytime(s) ==
    IF s = <<>> THEN <<>>
    ELSE LET rest == SortSiteTime_bytime(SubSeq(s, 1, Len(s) - 1))
             r == s[Len(s)]
             n == Cardinality({i \in 1..Len(rest) : rest[i].time <= r.time})
         IN  SubSeq(rest, 1, n) \o <<r>> \o SubSeq(rest, n + 1, Len(rest))

\* DataFrame.sort_values([site_col, datetime_col]): a stable sort
RECURSIVE SortSiteTime(_)
SortSiteTime(s) ==
    IF s = <<>> THEN <<>>
    ELSE InsertSorted(SortSiteTime(SubSeq(s, 1, Len(s) - 1)), s[Len(s)])

\* Index(values).is_monotonic_increasing on the join key
TimesMonotonic(s) == \A i \in 1..Len(s) - 1 : s[i].time <= s[i + 1].time

---------------------------------------------------------------------------
(* FeatureMatrixBuilder: construction *)

\* cfg.datetime_col, site_col, determinand_col, value_col, unit_col (defaults)
RequiredCols ==
    {"phenomenonTime", "samplingPoint.notation", "determinand.notation",
     "result", "unit"}

Casts == {"str", "int", "none"}

\* lookback_days < 0 as the test: a lookback of 0 passes
ValidateInputs_negative(d, cfg) ==
    IF RequiredCols \ d.cols # {} THEN "ValueError"
    ELSE IF cfg.determinand_cast \notin Casts THEN "ValueError"
    ELSE IF cfg.window_end_year < cfg.window_start_year THEN "ValueError"
    ELSE IF cfg.lookback_days < 0 THEN "ValueError"
    ELSE "ok"

\* _validate_inputs: the constructor's outcome
ValidateInputs(d, cfg) ==
    IF RequiredCols \ d.cols # {} THEN "ValueError"
    ELSE IF cfg.determinand_cast \notin Casts THEN "ValueError"
    ELSE IF cfg.window_end_year < cfg.window_start_year THEN "ValueError"
    ELSE IF cfg.lookback_days <= 0 THEN "ValueError"
    ELSE "ok"

NoFrame == [cols |-> {}, rows |-> <<>>]

\* json.dumps(asdict(config), sort_keys=True) under sha256: the field values in
\* key order (the column names and output_dir keep their defaults)
MakeConfigFingerprint(cfg) ==
    <<cfg.add_age_days, cfg.add_days_since_last_chl, cfg.add_missing_flags,
      cfg.determinand_cast, cfg.feature_version, cfg.lookback_days,
      cfg.predictor_ids, cfg.snapshot_id, cfg.target_determinand_id,
      cfg.threshold_ugL, cfg.window_end_year, cfg.window_start_year>>

---------------------------------------------------------------------------
(* FeatureMatrixBuilder: the series *)

\* _filter_window: parse, drop NaT, keep the years of the window
FilterWindow(cfg, rows) ==
    LET parsed == [i \in 1..Len(rows) |->
                     [rows[i] EXCEPT !.time = to_datetime(rows[i].time)]]
    IN  Mask(parsed, {i \in 1..Len(parsed) :
                        /\ parsed[i].time # NaT
                        /\ YearOf(parsed[i].time) >= cfg.window_start_year
                        /\ YearOf(parsed[i].time) <= cfg.window_end_year})

\* the rows of one determinand with a numeric value, sorted by (site, time)
NumericSeries(cfg, rows, id) ==
    LET dfw == FilterWindow(cfg, rows)
        d == Mask(dfw, {i \in 1..Len(dfw) :
                          DetMatches(cfg.determinand_cast, dfw[i].det, id)})
        num == [i \in 1..Len(d) |->
                  [site |-> d[i].site, time |-> d[i].time,
                   value |-> to_numeric(d[i].value)]]
    IN  SortSiteTime(Mask(num, {i \in 1..Len(num) : num[i].value # NaN}))

\* (value > threshold).astype(int)
Exceeds(v, threshold) == IF v > threshold THEN 1 ELSE 0

\* _build_target_anchor
BuildTargetAnchor(cfg, rows) ==
    LET df_t == NumericSeries(cfg, rows, cfg.target_determinand_id)
    IN  [i \in 1..Len(df_t) |->
           [site |-> df_t[i].site, time |-> df_t[i].time,
            chl_ugL |-> df_t[i].value,
            y |-> Exceeds(df_t[i].value, cfg.threshold_ugL),
            p |-> <<>>,
            days_since_last_chl |-> Absent]]

\* _extract_predictor_series
ExtractPredictorSeries(cfg, rows, pid) == NumericSeries(cfg, rows, pid)

---------------------------------------------------------------------------
(* FeatureMatrixBuilder: the point-in-time join *)

\* merge_asof without by=site: the last row passed, whatever its site
AsofMatch_nosite(a, p) ==
    LET passed == {j \in 1..Len(p) : p[j].time <= a.time}
    IN  IF passed = {} THEN 0
        ELSE CHOOSE j \in passed : \A k \in passed : k <= j

\* of the rows of the matched timestamp the first is taken
AsofMatch_firsttie(a, p) ==
    LET passed == {j \in 1..Len(p) : p[j].time <= a.time /\ p[j].site = a.site}
        last == CHOOSE j \in passed : \A k \in passed : k <= j
    IN  IF passed = {} THEN 0
        ELSE CHOOSE j \in passed :
                /\ p[j].time = p[last].time
                /\ \A k \in passed : p[k].time = p[last].time => j <= k

\* pd.merge_asof(direction="backward", allow_exact_matches=True, by=site):
\* the right pointer passes every row with time <= the anchor's time and the
\* last row passed for each site is remembered; 0 when the site has none
AsofMatch(a, p) ==
    LET passed == {j \in 1..Len(p) : p[j].time <= a.time /\ p[j].site = a.site}
    IN  IF passed = {} THEN 0
        ELSE CHOOSE j \in passed : \A k \in passed : k <= j

\* age >= lookback_days: an observation exactly lookback_days old is dropped
IsStale_atleast(age, lookback_days) == age >= lookback_days

\* age > float(lookback_days)
IsStale(age, lookback_days) == age > lookback_days

\* the flag taken from the merge result before the stale values are nulled
JoinedColumns_flagfirst(cfg, a, p) ==
    LET j == AsofMatch_nosite(a, Mask(p, {i \in 1..Len(p) : p[i].site = a.site}))
        q == Mask(p, {i \in 1..Len(p) : p[i].site = a.site})
        age == IF j = 0 THEN NaN ELSE a.time - q[j].time
        stale == j # 0 /\ age > cfg.lookback_days
    IN  [val |-> IF j = 0 \/ stale THEN NaN ELSE q[j].value,
         time |-> IF j = 0 \/ stale THEN NaT ELSE q[j].time,
         age_days |-> IF ~cfg.add_age_days THEN Absent
                      ELSE IF stale THEN NaN ELSE age,
         is_missing |-> IF ~cfg.add_missing_flags THEN Absent
                        ELSE IF j = 0 THEN 1 ELSE 0]

\* one anchor's columns for one predictor, after lookback enforcement
JoinedColumns(cfg, a, p) ==
    LET j == AsofMatch(a, p)
        age == IF j = 0 THEN NaN ELSE a.time - p[j].time
        stale == j # 0 /\ IsStale(age, cfg.lookback_days)
        val == IF j = 0 \/ stale THEN NaN ELSE p[j].value
    IN  [val |-> val,
         time |-> IF j = 0 \/ stale THEN NaT ELSE p[j].time,
         age_days |-> IF ~cfg.add_age_days THEN Absent
                      ELSE IF stale THEN NaN ELSE age,
         is_missing |-> IF ~cfg.add_missing_flags THEN Absent
                        ELSE IF val = NaN THEN 1 ELSE 0]

\* merge_asof refuses keys that are not sorted on the time column alone
MergeRaises(a, p) == ~TimesMonotonic(a) \/ ~TimesMonotonic(p)

\* _merge_asof_backward
MergeAsofBackward(cfg, anchor, pred) ==
    LET a == SortSiteTime(anchor)
        p == SortSiteTime(pred)
    IN  IF MergeRaises(a, p) THEN [raised |-> TRUE, rows |-> <<>>]
        ELSE [raised |-> FALSE,
              rows |-> [i \in 1..Len(a) |->
                          [a[i] EXCEPT !.p = Append(@, JoinedColumns(cfg, a[i], p))]]]

\* the loop of build() over cfg.predictor_ids, from the k-th on
RECURSIVE MergePredictors(_, _, _, _)
MergePredictors(cfg, rows, df_feat, k) ==
    IF k > Len(cfg.predictor_ids) THEN [raised |-> FALSE, rows |-> df_feat]
    ELSE IF NormalizeTargetRaises(cfg.determinand_cast, cfg.predictor_ids[k])
         THEN [raised |-> TRUE, rows |-> <<>>]
    ELSE LET m == MergeAsofBackward(cfg, df_feat,
                      ExtractPredictorSeries(cfg, rows, cfg.predictor_ids[k]))
         IN  IF m.raised THEN m ELSE MergePredictors(cfg, rows, m.rows, k + 1)

\* diff() over the whole frame, without the groupby
AddTimeFeatures_nogroup(cfg, rows) ==
    IF ~cfg.add_days_since_last_chl THEN rows
    ELSE LET out == SortSiteTime(rows)
         IN  [i \in 1..Len(out) |->
                [out[i] EXCEPT !.days_since_last_chl =
                    IF i > 1 THEN out[i].time - out[i - 1].time ELSE NaN]]

\* _add_time_features: groupby(site).diff() in (site, time) order
AddTimeFeatures(cfg, rows) ==
    IF ~cfg.add_days_since_last_chl THEN rows
    ELSE LET out == SortSiteTime(rows)
         IN  [i \in 1..Len(out) |->
                [out[i] EXCEPT !.days_since_last_chl =
                    IF i > 1 /\ out[i - 1].site = out[i].site
                    THEN out[i].time - out[i - 1].time ELSE NaN]]

Raised == [status |-> "raised", rows |-> <<>>, feature_version |-> "",
           feature_config_fingerprint |-> <<>>, snapshot_id |-> ""]
NotBuilt == [Raised EXCEPT !.status = "none"]

\* build(): the frame it returns, or that it raised
BuildFrame(cfg, d) ==
    IF RequiredCols \ d.cols # {} THEN Raised
    ELSE IF NormalizeTargetRaises(cfg.determinand_cast, cfg.target_determinand_id)
         THEN Raised
    ELSE LET anchor == BuildTargetAnchor(cfg, d.rows)
             m == MergePredictors(cfg, d.rows, anchor, 1)
         IN  IF m.raised THEN Raised
             ELSE [status |-> "ok",
                   rows |-> SortSiteTime(AddTimeFeatures(cfg, m.rows)),
                   feature_version |-> cfg.feature_version,
                   feature_config_fingerprint |-> MakeConfigFingerprint(cfg),
                   snapshot_id |-> cfg.snapshot_id]

RECURSIVE SumY(_)
SumY(rows) == IF rows = <<>> THEN 0 ELSE rows[1].y + SumY(Tail(rows))

NoArtifacts == [feature_config_fingerprint |-> <<>>, n_rows |-> NaN, n_pos |-> NaN]

\* self.artifacts[...] = ... at the end of a build() that returns
ArtifactsAfter(old, out) ==
    IF out.status # "ok" THEN old
    ELSE [feature_config_fingerprint |-> out.feature_config_fingerprint,
          n_rows |-> Len(out.rows), n_pos |-> SumY(out.rows)]

\* rename(columns={value_col: "chl_ugL"}) applied to self._df itself
SelfDfAfterBuild_inplace(cfg, d) ==
    [d EXCEPT !.cols = (@ \ {"result"}) \cup {"chl_ugL"}]

\* build() reads self._df through copies (df.copy(), dfw[...].copy()) and
\* leaves it as it was
SelfDfAfterBuild(cfg, d) == d

---------------------------------------------------------------------------
(* FeatureMatrixBuilder: the actions *)

\* FeatureMatrixBuilder(df_clean, config)
Construct ==
    /\ builder = "new"
    /\ builder' = ValidateInputs(df, config)
    /\ bdf' = IF builder' = "ok" THEN df ELSE NoFrame
    /\ artifacts' = NoArtifacts
    /\ UNCHANGED <<df, config, feat, prev, runs, fbVars, lbVars, extVars>>

\* the caller's df_clean after build(): self._df is a shallow copy of it and
\* _filter_window assigns its columns on a copy of self._df
InputAfterBuild(cfg, d) == d

\* builder.build(), a first and a second time
Build ==
    /\ builder = "ok"
    /\ runs \in {"none", "first"}
    /\ feat' = BuildFrame(config, bdf)
    /\ prev' = feat
    /\ artifacts' = ArtifactsAfter(artifacts, feat')
    /\ bdf' = SelfDfAfterBuild(config, bdf)
    /\ runs' = IF runs = "none" THEN "first" ELSE "again"
    /\ df' = InputAfterBuild(config, df)
    /\ UNCHANGED <<config, builder, fbVars, lbVars, extVars>>

---------------------------------------------------------------------------
(* FeatureMatrixBuilder.save and the script that runs construct, build,   *)
(* save in a row                                                           *)

NoFile == [written |-> FALSE, name |-> <<>>, content |-> <<>>]
NoFiles == [data |-> NoFile, meta |-> NoFile]

\* f"features_{snap}_lb{cfg.lookback_days}_{cfg.feature_version}.parquet"
FileName(cfg) == <<"features", cfg.snapshot_id, cfg.lookback_days, cfg.feature_version>>

\* the meta dictionary of the sidecar
SidecarMeta(cfg, art) ==
    [snapshot_id |-> cfg.snapshot_id,
     feature_version |-> cfg.feature_version,
     lookback_days |-> cfg.lookback_days,
     predictor_ids |-> [k \in 1..Len(cfg.predictor_ids) |-> StrOf(cfg.predictor_ids[k])],
     target_determinand_id |-> StrOf(cfg.target_determinand_id),
     threshold_ugL |-> cfg.threshold_ugL,
     window |-> <<cfg.window_start_year, cfg.window_end_year>>,
     feature_config_fingerprint |-> art.feature_config_fingerprint,
     n_rows |-> art.n_rows,
     n_pos |-> art.n_pos]

\* save() that stops after to_parquet
SaveFiles_dataonly(cfg, art, df_feat) ==
    [data |-> [written |-> TRUE, name |-> FileName(cfg), content |-> df_feat.rows,
               feature_config_fingerprint |-> df_feat.feature_config_fingerprint],
     meta |-> NoFile]

\* save(): df_feat.to_parquet(out_path), then sidecar.write_text(json.dumps(meta))
SaveFiles(cfg, art, df_feat) ==
    [data |-> [written |-> TRUE, name |-> FileName(cfg), content |-> df_feat.rows,
               feature_config_fingerprint |-> df_feat.feature_config_fingerprint],
     meta |-> [written |-> TRUE, name |-> Append(FileName(cfg), "meta.json"),
               content |-> SidecarMeta(cfg, art)]]

\* df_feat = builder.build() of the script: called once
RunBuild ==
    /\ runs = "none"
    /\ Build

\* out_path = builder.save(df_feat): reached only when both calls before it
\* returned
Save ==
    /\ builder = "ok"
    /\ runs = "first"
    /\ feat.status = "ok"
    /\ ~files.data.written
    /\ files' = SaveFiles(config, artifacts, feat)
    /\ UNCHANGED <<fmVars, fbVars, lbVars, fpVars, paVars, idVars, pbVars, clVars, igVars>>

\* the feature matrices a caller can hand to save(): what this builder's last
\* build() returned, and the matrix of the same table and configuration that
\* an earlier builder returned
HeldFrames ==
    {f \in {feat, BuildFrame(config, bdf)} : f.status = "ok"}

\* builder.save(df_feat), at any point after construction
SaveHeld ==
    /\ builder = "ok"
    /\ \E df_feat \in HeldFrames : files' = SaveFiles(config, artifacts, df_feat)
    /\ UNCHANGED <<fmVars, fbVars, lbVars, fpVars, paVars, idVars, pbVars, clVars, igVars>>

---------------------------------------------------------------------------
(* FeatureBuilder: lag and shifted rolling features of one column.  The   *)
(* tn / tp columns go through the same two helpers and are not repeated;  *)
(* the frame's DatetimeIndex holds distinct timestamps.                    *)

TimeLeq(a, b) == a.time <= b.time

RECURSIVE InsertByTime(_, _)
InsertByTime(s, r) ==
    IF s = <<>> THEN <<r>>
    ELSE IF TimeLeq(s[Len(s)], r) THEN Append(s, r)
         ELSE Append(InsertByTime(SubSeq(s, 1, Len(s) - 1), r), s[Len(s)])

\* df.sort_index()
RECURSIVE SortIndex(_)
SortIndex(s) ==
    IF s = <<>> THEN <<>>
    ELSE InsertByTime(SortIndex(SubSeq(s, 1, Len(s) - 1)), s[Len(s)])

\* s.shift(k): k leading nulls, the last k values fall off
Shift(s, k) == [i \in 1..Len(s) |-> IF i <= k THEN NaN ELSE s[i - k]]

\* no shift at all
ShiftOne_none(s) == s

\* s.shift(1), the series every rolling statistic is computed on
ShiftOne(s) == Shift(s, 1)

RECURSIVE SumSeq(_)
SumSeq(s) == IF s = <<>> THEN 0 ELSE Head(s) + SumSeq(Tail(s))

\* a mean kept as sum over count; count 0 is the null mean
NullMean == [sum |-> 0, count |-> 0]

\* s.rolling(window=w, min_periods=1).mean() at position t
RollingMeanAt(s, w, t) ==
    LET lo == IF t - w + 1 > 1 THEN t - w + 1 ELSE 1
        win == SubSeq(s, lo, t)
        obs == Mask(win, {i \in 1..Len(win) : win[i] # NaN})
    IN  IF Len(obs) >= 1 THEN [sum |-> SumSeq(obs), count |-> Len(obs)]
        ELSE NullMean

\* _rolling_mean_features: one column per window
RollingMeanFeatures(col, windows) ==
    LET s_shifted == ShiftOne(col)
    IN  [t \in 1..Len(col) |->
           [k \in 1..Len(windows) |-> RollingMeanAt(s_shifted, windows[k], t)]]

\* _lag_features: one column per lag
LagFeatures(col, lags) ==
    [t \in 1..Len(col) |-> [k \in 1..Len(lags) |-> Shift(col, lags[k])[t]]]

\* (df[chl_col].shift(1) > chl_threshold).astype("Int64"): a null compares False
PrevExceedFlag(col, threshold) ==
    LET prior == Shift(col, 1)
    IN  [t \in 1..Len(col) |-> IF prior[t] # NaN /\ prior[t] > threshold THEN 1 ELSE 0]

\* FeatureBuilder.build
BuildFeatures(cfg, frame) ==
    LET d == SortIndex(frame)
        col == [t \in 1..Len(d) |-> to_numeric(d[t].chl)]
        lag == LagFeatures(col, cfg.chl_lags)
        roll == RollingMeanFeatures(col, cfg.chl_rolls)
        flag == PrevExceedFlag(col, cfg.chl_threshold)
    IN  [t \in 1..Len(d) |->
           [time |-> d[t].time,
            chl_lag |-> lag[t],
            chl_roll_mean |-> roll[t],
            prev_exceed_flag |-> flag[t],
            days_since_prev |-> IF t = 1 THEN NaN ELSE d[t].time - d[t - 1].time,
            miss_chl |-> IF d[t].chl = Null THEN 1 ELSE 0]]

\* X = FeatureBuilder(cfg).build(df)
BuildX ==
    /\ X = <<>>
    /\ series # <<>>
    /\ X' = BuildFeatures(fbcfg, series)
    /\ UNCHANGED <<series, fbcfg, fmVars, lbVars, extVars>>

---------------------------------------------------------------------------
(* FeatureBuilder: the columns of the output, in the order build() adds    *)
(* them, and the train / test slices of scripts/check_feature_parity.py    *)

Col(name, n) == [name |-> name, n |-> n]

\* the keys of the dict out[f"{prefix}_{k}"] = ... for k in ks: every key once,
\* at the place of its first insertion
RECURSIVE DictKeys(_, _)
DictKeys(prefix, ks) ==
    IF ks = <<>> THEN <<>>
    ELSE LET before == DictKeys(prefix, SubSeq(ks, 1, Len(ks) - 1))
             c == Col(prefix, ks[Len(ks)])
         IN  IF \E i \in DOMAIN before : before[i] = c THEN before
             ELSE Append(before, c)

\* lag and rolling columns only for a frame that has rows
FeatureColumns_dropempty(cfg, cols, d) ==
    IF d = <<>> THEN <<Col("prev_exceed_flag", 0), Col("days_since_prev", 0)>>
    ELSE DictKeys("chl_lag", cfg.chl_lags) \o DictKeys("chl_roll_mean", cfg.chl_rolls)
         \o <<Col("prev_exceed_flag", 0), Col("days_since_prev", 0)>>

\* out.columns at the end of build(): chl lags and rolling means, the flag,
\* days_since_prev, seasonality, the tn block if the frame has the column, the
\* miss_ flags
FeatureColumns(cfg, cols, d) ==
    DictKeys("chl_lag", cfg.chl_lags) \o DictKeys("chl_roll_mean", cfg.chl_rolls)
    \o <<Col("prev_exceed_flag", 0), Col("days_since_prev", 0)>>
    \o <<Col("month", 0), Col("doy_sin", 0), Col("doy_cos", 0)>>
    \o (IF cfg.tn_col # "" /\ cfg.tn_col \in cols
        THEN DictKeys("tn_lag", cfg.tn_lags) \o DictKeys("tn_roll_mean", cfg.tn_rolls)
        ELSE <<>>)
    \o (IF cfg.add_missingness_flags
        THEN <<Col("miss_chl", 0)>>
             \o (IF cfg.tn_col # "" /\ cfg.tn_col \in cols
                 THEN <<Col("miss_tn", 0)>> ELSE <<>>)
        ELSE <<>>)

\* df.loc[a:b] on the sorted index: the rows whose time lies in lo..hi
TimeSlice(frame, lo, hi) ==
    LET d == SortIndex(frame)
    IN  Mask(d, {i \in 1..Len(d) : lo <= d[i].time /\ d[i].time <= hi})

\* fb.build(slice) with its column list
BuildWithColumns(cfg, cols, slice) ==
    [slice |-> slice,
     columns |-> FeatureColumns(cfg, cols, slice),
     rows |-> BuildFeatures(cfg, slice)]

\* X_train = fb.build(train); X_test = fb.build(test), the source cut at a day
BuildSlices ==
    /\ Xs = <<>>
    /\ srccols # {}
    /\ \E cut \in 0..MaxLen :
          Xs' = <<BuildWithColumns(fbcfg, srccols, TimeSlice(series, 0, cut - 1)),
                  BuildWithColumns(fbcfg, srccols, TimeSlice(series, cut, MaxLen))>>
    /\ UNCHANGED <<srccols, series, fbcfg, X, fmVars, lbVars, svVars, fpVars, idVars, pbVars,
                   clVars, igVars>>

---------------------------------------------------------------------------
(* Determinand selection in the three components that filter by id:       *)
(* FeatureMatrixBuilder and ViabilityGate (the same three comparison      *)
(* modes), and CleanDatasetBuilder.filter_determinands (leading zeros     *)
(* stripped)                                                               *)

\* s.lstrip("0")
RECURSIVE LStripZeros(_)
LStripZeros(s) ==
    IF s # <<>> /\ Head(s) = 0 THEN LStripZeros(Tail(s)) ELSE s

\* str(x).strip().lstrip("0") or "0"
CleanNorm(x) ==
    LET s == LStripZeros(StrOf(x))
    IN  IF s = <<>> THEN <<0>> ELSE s

\* does the component keep a row whose determinand cell is x, given the
\* configured id t
Selects(component, cast, x, t) ==
    IF component = "clean" THEN CleanNorm(x) = CleanNorm(t)
    ELSE DetMatches(cast, x, t)

\* det_norm == target_norm / det_norm.isin(wanted) over the column
SelectRows ==
    /\ idin.component # "none"
    /\ ~idout.done
    /\ idout' = [done |-> TRUE,
                 selected |-> {i \in 1..Len(idin.column) :
                                 Selects(idin.component, idin.cast,
                                         idin.column[i], idin.target)}]
    /\ UNCHANGED <<idin, fmVars, fbVars, lbVars, svVars, fpVars, paVars, pbVars, clVars,
                   igVars>>

---------------------------------------------------------------------------
(* Baselines *)

\* d[y_col].mode().iloc[0]: the most frequent label, the smaller one on a tie
ModeOf(d) ==
    LET ones == Cardinality({i \in 1..Len(d) : d[i].y = 1})
    IN  IF 2 * ones > Len(d) THEN 1 ELSE 0

\* fallback = int(d[y_col].mode().iloc[0]) if len(d) else 0
Fallback(d) == IF Len(d) > 0 THEN ModeOf(d) ELSE 0

\* d.groupby(site_col)[y_col].shift(1) at position i of the sorted frame
GroupShiftOne(d, i) ==
    IF i > 1 /\ d[i - 1].site = d[i].site THEN d[i - 1].y ELSE NaN

\* PersistenceBaseline.predict
PersistencePredict(frame) ==
    LET d == SortSiteTime(frame)
        fallback == Fallback(d)
    IN  [done |-> TRUE,
         y_true |-> [i \in 1..Len(d) |-> d[i].y],
         y_pred |-> [i \in 1..Len(d) |->
                       IF GroupShiftOne(d, i) = NaN THEN fallback
                       ELSE GroupShiftOne(d, i)],
         fallback_class |-> fallback]

\* r = PersistenceBaseline().fit(df, ...).predict(df, ...)
PredictPersistence ==
    /\ ~pbout.done
    /\ pbin # <<>>
    /\ pbout' = PersistencePredict(pbin)
    /\ UNCHANGED <<pbin, smtrain, smtest, smfit, smout,
                   fmVars, fbVars, lbVars, svVars, fpVars, paVars, idVars, clVars, igVars>>

\* float(series.mean()) of 0/1 labels, kept as ones over count
RateOf(d, idx) ==
    [sum |-> Cardinality({i \in idx : d[i].y = 1}), count |-> Cardinality(idx)]

\* SeasonalMeanBaseline.fit: global_p is 0.0 for an empty frame; p_by_month
\* has a key for every month that occurs in the frame
SeasonalFit(d) ==
    LET months == {d[i].month : i \in 1..Len(d)}
    IN  [fitted |-> TRUE,
         global_p |-> IF Len(d) > 0 THEN RateOf(d, 1..Len(d))
                      ELSE [sum |-> 0, count |-> 1],
         p_by_month |-> [m \in months |->
                           RateOf(d, {i \in 1..Len(d) : d[i].month = m})]]

\* self.p_by_month.get(int(m), self.global_p)
ScoreOf(fit, m) ==
    IF m \in DOMAIN fit.p_by_month THEN fit.p_by_month[m] ELSE fit.global_p

\* the month rates taken from the frame being predicted
SeasonalPredict_refit(fit, d) ==
    [done |-> TRUE,
     y_true |-> [i \in 1..Len(d) |-> d[i].y],
     y_score |-> [i \in 1..Len(d) |-> ScoreOf(SeasonalFit(d), d[i].month)],
     y_pred |-> [i \in 1..Len(d) |-> 0]]

\* SeasonalMeanBaseline.predict; y_pred = (y_score >= 0.5)
SeasonalPredict(fit, d) ==
    [done |-> TRUE,
     y_true |-> [i \in 1..Len(d) |-> d[i].y],
     y_score |-> [i \in 1..Len(d) |-> ScoreOf(fit, d[i].month)],
     y_pred |-> [i \in 1..Len(d) |->
                   LET s == ScoreOf(fit, d[i].month)
                   IN  IF 2 * s.sum >= s.count THEN 1 ELSE 0]]

\* b = SeasonalMeanBaseline(month_col="month").fit(train, y_col="y")
FitSeasonal ==
    /\ smtest # <<>>
    /\ ~smfit.fitted
    /\ smfit' = SeasonalFit(smtrain)
    /\ UNCHANGED <<smtrain, smtest, smout, pbin, pbout,
                   fmVars, fbVars, lbVars, svVars, fpVars, paVars, idVars, clVars, igVars>>

\* r = b.predict(test, y_col="y")
PredictSeasonal ==
    /\ smfit.fitted
    /\ ~smout.done
    /\ smout' = SeasonalPredict(smfit, smtest)
    /\ UNCHANGED <<smtrain, smtest, smfit, pbin, pbout,
                   fmVars, fbVars, lbVars, svVars, fpVars, paVars, idVars, clVars, igVars>>

---------------------------------------------------------------------------
(* LabelBuilder *)

\* chl >= threshold whatever strictly_greater says
LabelOf_inclusive(cfg, c) ==
    LET v == to_numeric(c)
    IN  IF v # NaN /\ v >= cfg.threshold_ugL THEN 1 ELSE 0

\* (chl > threshold).astype(int), or >= when strictly_greater is off; a null
\* compares False
LabelOf(cfg, c) ==
    LET v == to_numeric(c)
    IN  IF cfg.strictly_greater
        THEN IF v # NaN /\ v > cfg.threshold_ugL THEN 1 ELSE 0
        ELSE IF v # NaN /\ v >= cfg.threshold_ugL THEN 1 ELSE 0

\* json.dumps(asdict(config), sort_keys=True) under sha256
LabelFingerprint(cfg) ==
    <<cfg.chl_value_col, cfg.label_col, cfg.label_version,
      cfg.strictly_greater, cfg.threshold_ugL>>

\* build_from_feature_matrix: a copy of the frame with y, label_version and
\* label_config_fingerprint set
BuildFromFeatureMatrix(cfg, frame) ==
    [i \in 1..Len(frame) |->
       [chl_ugL |-> frame[i],
        y |-> LabelOf(cfg, frame[i]),
        label_version |-> cfg.label_version,
        label_config_fingerprint |-> LabelFingerprint(cfg)]]

\* the caller's df_feat after the call: y, label_version and the fingerprint
\* are assigned on out = df_feat.copy()
FrameAfterLabels(cfg, frame) == frame

\* out = LabelBuilder(cfg).build_from_feature_matrix(df_feat)
BuildLabels ==
    /\ labelled = <<>>
    /\ chl # <<>>
    /\ labelled' = BuildFromFeatureMatrix(lcfg, chl)
    /\ chl' = FrameAfterLabels(lcfg, chl)
    /\ UNCHANGED <<lcfg, gate, fmVars, fbVars, extVars>>

---------------------------------------------------------------------------
(* ViabilityGate: the target series and its class balance.  The gate reads *)
(* the same clean table and the same target, threshold, window and cast    *)
(* fields as the FeatureMatrixConfig it is compared with.                  *)

\* value >= threshold
YExceed_atleast(v, threshold) == IF v >= threshold THEN 1 ELSE 0

\* (df[value_col] > threshold_ugL).astype(int)
YExceed(v, threshold) == IF v > threshold THEN 1 ELSE 0

\* _prepare_target_series keeps a row of the target determinand that has a
\* timestamp and a value, a year in the window and a numeric value
TargetRowKept(cfg, r) ==
    /\ DetMatches(cfg.determinand_cast, r.det, cfg.target_determinand_id)
    /\ to_datetime(r.time) # NaT
    /\ r.value # Null
    /\ YearOf(to_datetime(r.time)) >= cfg.window_start_year
    /\ YearOf(to_datetime(r.time)) <= cfg.window_end_year
    /\ to_numeric(r.value) # NaN

\* the parsed timestamp, the numeric value and y_exceed of a kept row
TargetRow(cfg, r) ==
    [time |-> to_datetime(r.time), value |-> to_numeric(r.value),
     y_exceed |-> YExceed(to_numeric(r.value), cfg.threshold_ugL)]

\* _prepare_target_series: the kept rows in time order, with y_exceed
PrepareTargetSeries(cfg, rows) ==
    SortIndex(MapRows(Mask(rows, {i \in 1..Len(rows) : TargetRowKept(cfg, rows[i])}),
                      LAMBDA r : TargetRow(cfg, r)))

RECURSIVE SumExceed(_)
SumExceed(rows) == IF rows = <<>> THEN 0 ELSE rows[1].y_exceed + SumExceed(Tail(rows))

NoBalance == [status |-> "none", n_total |-> 0, n_pos |-> 0, n_neg |-> 0]

\* compute_class_balance
ComputeClassBalance(cfg, d) ==
    IF NormalizeTargetRaises(cfg.determinand_cast, cfg.target_determinand_id)
    THEN [NoBalance EXCEPT !.status = "raised"]
    ELSE LET df_t == PrepareTargetSeries(cfg, d.rows)
         IN  [status |-> "ok", n_total |-> Len(df_t), n_pos |-> SumExceed(df_t),
              n_neg |-> Len(df_t) - SumExceed(df_t)]

\* ViabilityGate(df_clean, cfg).compute_class_balance()
ClassBalance ==
    /\ gate.status = "none"
    /\ df # NoFrame
    /\ gate' = ComputeClassBalance(config, df)
    /\ UNCHANGED <<chl, lcfg, labelled, fmVars, fbVars, extVars>>

\* LabelBuilder(LabelConfig(threshold_ugL=...)).build_from_feature_matrix(df_feat)
\* on the matrix that build() returned
RelabelMatrix ==
    /\ feat.status = "ok"
    /\ labelled = <<>>
    /\ feat.rows # <<>>
    /\ chl' = [i \in 1..Len(feat.rows) |-> Cell(feat.rows[i].chl_ugL)]
    /\ labelled' = BuildFromFeatureMatrix(lcfg, chl')
    /\ UNCHANGED <<lcfg, gate, fmVars, fbVars, extVars>>

---------------------------------------------------------------------------
(* CleanConfig and the configuration fingerprints.  A Python dict is the   *)
(* sequence of its (key, value) items in insertion order, or None; sha256  *)
(* is taken to be free of collisions, so a fingerprint is the text hashed. *)

NoneDict == [none |-> TRUE, items |-> <<>>]
Dict(items) == [none |-> FALSE, items |-> items]

\* d1 == d2 of two dicts: the same keys with the same values, in any order
DictEq(d1, d2) ==
    /\ d1.none = d2.none
    /\ {d1.items[i] : i \in DOMAIN d1.items} = {d2.items[i] : i \in DOMAIN d2.items}

\* repr(d): the items as the dict holds them
DictRepr(d) == d

\* CleanConfig(...), with the column names, time zones and sort / dedupe keys
\* at their defaults
CleanConfigOf(ids, au, mm) ==
    [determinand_ids |-> ids, require_units |-> TRUE, allowed_units |-> au,
     coerce_numeric_errors |-> "coerce", drop_non_numeric |-> TRUE,
     drop_negative |-> TRUE, min_max_by_determinand |-> mm,
     dedupe_keep |-> "last", snapshot_id |-> "snap", clean_version |-> "CLEAN_V1"]

\* build_report: sha256(repr(sorted(self.config.__dict__.items()))): the
\* fields in name order, each value as repr writes it
CleanFingerprint(cfg) ==
    <<DictRepr(cfg.allowed_units), cfg.clean_version,
      cfg.coerce_numeric_errors, cfg.dedupe_keep, cfg.determinand_ids,
      cfg.drop_negative, cfg.drop_non_numeric,
      DictRepr(cfg.min_max_by_determinand), cfg.require_units, cfg.snapshot_id>>

FingerprintOf(kind, cfg) ==
    CASE kind = "feature" -> MakeConfigFingerprint(cfg)
      [] kind = "label" -> LabelFingerprint(cfg)
      [] kind = "clean" -> CleanFingerprint(cfg)

\* the fingerprints of two configuration objects of one kind
Fingerprint ==
    /\ fpin.kind # "none"
    /\ fpout = <<>>
    /\ fpout' = <<FingerprintOf(fpin.kind, fpin.a), FingerprintOf(fpin.kind, fpin.b)>>
    /\ UNCHANGED <<fpin, fmVars, fbVars, lbVars, svVars, paVars, idVars, pbVars, clVars,
                   igVars>>

---------------------------------------------------------------------------
(* CleanDatasetBuilder.clean_dataframe.  A raw row is [site, time, det,    *)
(* value, unit]; a unit cell is a string, NoUnit when it is missing.  The  *)
(* time-zone steps of parse_datetime do not change the model's day numbers.*)

NoUnit == "<NA>"

\* c.allowed_units.get(det) / out[determinand_col] == det_id: an int key
\* equals an int cell of the same number and no str cell
KeyIs(det, key) == det.k = "int" /\ det.n = key

\* filter_determinands: rows whose normalised id is wanted, with the
\* normalised id kept in _det_id_norm
FilterDeterminands(cfg, rows) ==
    LET wanted == {CleanNorm(IntId(cfg.determinand_ids[i])) :
                     i \in DOMAIN cfg.determinand_ids}
        kept == Mask(rows, {i \in 1..Len(rows) : CleanNorm(rows[i].det) \in wanted})
    IN  [i \in 1..Len(kept) |->
           [site |-> kept[i].site, time |-> kept[i].time, det |-> kept[i].det,
            value |-> kept[i].value, unit |-> kept[i].unit,
            det_id_norm |-> CleanNorm(kept[i].det)]]

\* pd.to_datetime(errors="raise") raises on a cell that is no date
ParseDatetimeRaises(rows) == \E i \in 1..Len(rows) : rows[i].time = Garbage

ParseDatetime(rows) ==
    [i \in 1..Len(rows) |-> [rows[i] EXCEPT !.time = to_datetime(@)]]

\* coerce_numeric: astype(float) raises on a cell that is no number
CoerceNumericRaises(cfg, rows) ==
    \/ cfg.coerce_numeric_errors \notin {"raise", "coerce"}
    \/ /\ cfg.coerce_numeric_errors = "raise"
       /\ \E i \in 1..Len(rows) : rows[i].value = Garbage

\* coerce_numeric: the frame and the number of non-numeric cells
CoerceNumeric(cfg, rows) ==
    LET num == [i \in 1..Len(rows) |-> [rows[i] EXCEPT !.value = to_numeric(@)]]
        nan == {i \in 1..Len(num) : num[i].value = NaN}
    IN  IF cfg.coerce_numeric_errors = "raise" THEN [rows |-> num, dropped |-> 0]
        ELSE [rows |-> IF cfg.drop_non_numeric
                       THEN Mask(num, (1..Len(num)) \ nan) ELSE num,
              dropped |-> Cardinality(nan)]

\* the units allowed for a determinand cell; {} stands for "any"
AllowedFor(cfg, det) ==
    LET d == cfg.allowed_units
        hit == {i \in DOMAIN d.items : KeyIs(det, d.items[i].k)}
    IN  IF d.none \/ hit = {} THEN {} ELSE {d.items[CHOOSE i \in hit : TRUE].v}

\* harmonise_units: rows without a unit go if require_units, rows with a unit
\* that is not allowed go if allowed_units is given
HarmoniseUnits(cfg, rows) ==
    LET missing == {i \in 1..Len(rows) : cfg.require_units /\ rows[i].unit = NoUnit}
        had == Mask(rows, (1..Len(rows)) \ missing)
        bad == {i \in 1..Len(had) :
                  /\ AllowedFor(cfg, had[i].det) # {}
                  /\ had[i].unit \notin AllowedFor(cfg, had[i].det)}
    IN  [rows |-> Mask(had, (1..Len(had)) \ bad),
         dropped |-> Cardinality(missing) + Cardinality(bad)]

\* one entry of min_max_by_determinand applied: rows of det_id outside
\* [mn, mx] go
RECURSIVE ApplyRanges(_, _, _)
ApplyRanges(items, rows, dropped) ==
    IF items = <<>> THEN [rows |-> rows, dropped |-> dropped]
    ELSE LET e == Head(items)
             bad == {i \in 1..Len(rows) :
                       /\ KeyIs(rows[i].det, e.k)
                       /\ rows[i].value # NaN
                       /\ (rows[i].value < e.v[1] \/ rows[i].value > e.v[2])}
         IN  ApplyRanges(Tail(items), Mask(rows, (1..Len(rows)) \ bad),
                         dropped + Cardinality(bad))

\* apply_validity_rules: negative values, then the per-determinand ranges
ApplyValidityRules(cfg, rows) ==
    LET neg == {i \in 1..Len(rows) :
                  cfg.drop_negative /\ rows[i].value # NaN /\ rows[i].value < 0}
        pos == Mask(rows, (1..Len(rows)) \ neg)
    IN  IF cfg.min_max_by_determinand.none \/ cfg.min_max_by_determinand.items = <<>>
        THEN [rows |-> pos, dropped |-> Cardinality(neg)]
        ELSE ApplyRanges(cfg.min_max_by_determinand.items, pos, Cardinality(neg))

\* the order of two determinand cells of one column: numbers for ints,
\* character by character for strs (a column holds ints or strs, not both)
RECURSIVE StrLeq(_, _)
StrLeq(s, u) ==
    IF s = <<>> THEN TRUE
    ELSE IF u = <<>> THEN FALSE
    ELSE IF Head(s) # Head(u) THEN Head(s) < Head(u)
    ELSE StrLeq(Tail(s), Tail(u))

DetLeq(a, b) == IF a.k = "int" THEN a.n <= b.n ELSE StrLeq(a.s, b.s)

\* the dedupe / sort key of a row: (sample_datetime, sampling_point,
\* determinand_id)
SameKey(a, b) == a.time = b.time /\ a.site = b.site /\ a.det = b.det

\* ascending by time, then site, then determinand; NaT goes last
KeyLeq(a, b) ==
    IF a.time # b.time
    THEN b.time = NaT \/ (a.time # NaT /\ a.time < b.time)
    ELSE IF a.site # b.site THEN a.site < b.site
    ELSE DetLeq(a.det, b.det)

\* drop_duplicates that keeps the first row of a group whatever keep says
DropDuplicates_first(keep, rows) ==
    Mask(rows, {i \in 1..Len(rows) :
                  ~\E j \in 1..(i - 1) : SameKey(rows[i], rows[j])})

\* drop_duplicates(subset=dedupe_keys, keep=...): of the rows that share a
\* key the last (or the first) stays, at its place
DropDuplicates(keep, rows) ==
    Mask(rows, {i \in 1..Len(rows) :
                  IF keep = "last"
                  THEN ~\E j \in (i + 1)..Len(rows) : SameKey(rows[i], rows[j])
                  ELSE ~\E j \in 1..(i - 1) : SameKey(rows[i], rows[j])})

RECURSIVE InsertByKey(_, _)
InsertByKey(s, r) ==
    IF s = <<>> THEN <<r>>
    ELSE IF KeyLeq(s[Len(s)], r) THEN Append(s, r)
         ELSE Append(InsertByKey(SubSeq(s, 1, Len(s) - 1), r), s[Len(s)])

\* sort_values(sort_keys, kind="mergesort"): stable
RECURSIVE SortByKey(_)
SortByKey(s) ==
    IF s = <<>> THEN <<>>
    ELSE InsertByKey(SortByKey(SubSeq(s, 1, Len(s) - 1)), s[Len(s)])

\* dedupe_and_sort
DedupeAndSort(cfg, rows) == SortByKey(DropDuplicates(cfg.dedupe_keep, rows))

\* build_report
BuildReport(cfg, n_in, n_out, non_numeric, invalid, bad_unit) ==
    [config_fingerprint |-> CleanFingerprint(cfg),
     snapshot_id |-> cfg.snapshot_id,
     clean_version |-> cfg.clean_version,
     rows |-> [in |-> n_in, out |-> n_out],
     drops |-> [non_numeric |-> non_numeric, invalid_values |-> invalid,
                missing_or_bad_unit |-> bad_unit]]

CleanRaised == [status |-> "raised", rows |-> <<>>, report |-> <<>>]
NotCleaned == [CleanRaised EXCEPT !.status = "none"]

\* clean_dataframe: the cleaned frame and its report, or that it raised
CleanDataframe(cfg, rows) ==
    LET filtered == FilterDeterminands(cfg, rows)
    IN  IF ParseDatetimeRaises(filtered) THEN CleanRaised
        ELSE LET parsed == ParseDatetime(filtered)
             IN  IF CoerceNumericRaises(cfg, parsed) THEN CleanRaised
                 ELSE LET num == CoerceNumeric(cfg, parsed)
                          units == HarmoniseUnits(cfg, num.rows)
                          valid == ApplyValidityRules(cfg, units.rows)
                          out == DedupeAndSort(cfg, valid.rows)
                      IN  [status |-> "ok", rows |-> out,
                           report |-> BuildReport(cfg, Len(rows), Len(out),
                                                  num.dropped, valid.dropped,
                                                  units.dropped)]

\* filter_determinands run on the caller's table itself
RawAfterClean_inplace(cfg, rows) == FilterDeterminands(cfg, rows)

\* the caller's df_raw after clean_dataframe: it works on df = df_raw.copy()
\* and every step on out = df.copy()
RawAfterClean(cfg, rows) == rows

\* df_clean, report = builder.clean_dataframe(df_raw)
Clean ==
    /\ cleaned.status = "none"
    /\ cleaned' = CleanDataframe(ccfg, raw)
    /\ raw' = RawAfterClean(ccfg, raw)
    /\ UNCHANGED <<ccfg, recleaned, fmVars, fbVars, lbVars, svVars, fpVars, paVars, idVars, pbVars,
                   igVars>>

\* df2, rep2 = builder.clean_dataframe(df_raw): the same builder, the same
\* table object, after the first call
CleanAgain ==
    /\ cleaned.status \in {"ok", "raised"}
    /\ recleaned.status = "none"
    /\ recleaned' = CleanDataframe(ccfg, raw)
    /\ raw' = RawAfterClean(ccfg, raw)
    /\ UNCHANGED <<ccfg, cleaned, fmVars, fbVars, lbVars, svVars, fpVars, paVars, idVars,
                   pbVars, igVars>>

---------------------------------------------------------------------------
(* DataIngestor: fetch_observations and its pager.  One HTTP attempt is    *)
(* one step; what the server answers is the step's input.  A page is       *)
(* [skip, n]: the skip it was asked with and the number of its rows.       *)

NoError == "none"

\* the locals of fetch_observations before the call
NotFetching ==
    [phase |-> "idle", skip |-> 0, limit |-> 0, page |-> 0, attempt |-> 0,
     last_err |-> NoError, last_resp |-> "none", waits |-> <<>>, dfs |-> <<>>,
     result |-> <<>>, error |-> NoError, cause |-> NoError]

\* run_ingestion_all.main before it starts
NotRunning == [determinands |-> <<>>, i |-> 0, found |-> <<>>, out_root |-> <<>>,
               manifest_rows |-> <<>>, manifest |-> <<>>]

IdleIngestor ==
    /\ eacfg = [page_size |-> 0, max_retries |-> 0, backoff_s |-> 0,
                limit_pages |-> 0, point_notation |-> ""]
    /\ ig = NotFetching
    /\ allrun = NotRunning

\* page_size = min(int(self.cfg.page_size), 250)
PageLimit(cfg) == IF cfg.page_size < 250 THEN cfg.page_size ELSE 250

\* what an HTTP attempt can end in: a CSV body with rows, an empty body, or a
\* failure (raise_for_status / timeout, an HTML page, EmptyDataError)
Failures == {"HTTPError", "HTML", "EmptyDataError"}

\* the range of the retry loop is used up: RuntimeError(...) from last_err
Exhausted(s) ==
    [s EXCEPT !.phase = "raised", !.error = "RuntimeError", !.cause = s.last_err]

\* the first statements of fetch_observations, up to the first request
StartFetch ==
    /\ ig.phase = "ready"
    /\ ig' = IF eacfg.point_notation = ""
             THEN [ig EXCEPT !.phase = "raised", !.error = "ValueError"]
             ELSE LET s == [ig EXCEPT !.phase = "fetching", !.limit = PageLimit(eacfg),
                                      !.skip = 0, !.page = 1]
                  IN  IF eacfg.max_retries < 1 THEN Exhausted(s) ELSE s
    /\ UNCHANGED <<eacfg, allrun, fmVars, fbVars, lbVars, svVars, fpVars, paVars, idVars, pbVars,
                   clVars>>

\* the loop of fetch_observations after a page came back
AfterPage(cfg, s, n) ==
    IF n = 0
    THEN [s EXCEPT !.phase = "done", !.result = s.dfs]
    ELSE LET dfs == Append(s.dfs, [skip |-> s.skip, n |-> n])
         IN  IF cfg.limit_pages.set /\ s.page >= cfg.limit_pages.n
             THEN [s EXCEPT !.phase = "done", !.dfs = dfs, !.result = dfs,
                            !.skip = s.skip + s.limit]
             ELSE [s EXCEPT !.dfs = dfs, !.skip = s.skip + s.limit,
                            !.page = s.page + 1, !.attempt = 0,
                            !.last_err = NoError, !.waits = <<>>]

\* an empty body waits backoff_s * attempt and is tried again
AfterEmptyBody_retry(cfg, s) ==
    LET a == s.attempt + 1
        t == [s EXCEPT !.attempt = a, !.last_resp = "empty",
                       !.last_err = "EmptyDataError",
                       !.waits = Append(@, cfg.backoff_s * a)]
    IN  IF a >= cfg.max_retries THEN Exhausted(t) ELSE t

\* text == "": return pd.DataFrame(), which ends the paging
AfterEmptyBody(cfg, s) ==
    AfterPage(cfg, [s EXCEPT !.attempt = s.attempt + 1, !.last_resp = "empty"], 0)

\* a failure is followed by a wait of backoff_s * attempt whatever the attempt
\* number, and by one more attempt
AfterFailure_norange(cfg, s, kind) ==
    [s EXCEPT !.attempt = s.attempt + 1, !.last_resp = kind, !.last_err = kind,
              !.waits = Append(@, cfg.backoff_s * (s.attempt + 1))]

\* except ...: last_err = e; time.sleep(backoff_s * attempt); the loop ends
\* with the range
AfterFailure(cfg, s, kind) ==
    LET a == s.attempt + 1
        t == [s EXCEPT !.attempt = a, !.last_resp = kind, !.last_err = kind,
                       !.waits = Append(@, cfg.backoff_s * a)]
    IN  IF a >= cfg.max_retries THEN Exhausted(t) ELSE t

\* an attempt that brings a CSV body: n rows, or the header line alone
AttemptRows ==
    /\ ig.phase = "fetching"
    /\ ig.page <= MaxPages
    /\ \E n \in 0..2 :
          ig' = AfterPage(eacfg, [ig EXCEPT !.attempt = ig.attempt + 1,
                                            !.last_resp = "rows"], n)
    /\ UNCHANGED <<eacfg, allrun, fmVars, fbVars, lbVars, svVars, fpVars, paVars, idVars, pbVars,
                   clVars>>

\* an attempt that brings an empty body
AttemptEmpty ==
    /\ ig.phase = "fetching"
    /\ ig' = AfterEmptyBody(eacfg, ig)
    /\ UNCHANGED <<eacfg, allrun, fmVars, fbVars, lbVars, svVars, fpVars, paVars, idVars, pbVars,
                   clVars>>

\* an attempt that fails
AttemptFails ==
    /\ ig.phase = "fetching"
    /\ \E kind \in Failures : ig' = AfterFailure(eacfg, ig, kind)
    /\ UNCHANGED <<eacfg, allrun, fmVars, fbVars, lbVars, svVars, fpVars, paVars, idVars, pbVars,
                   clVars>>

---------------------------------------------------------------------------
(* run_ingestion_all.main: the loop over the determinands.  out_root maps  *)
(* a determinand to [parquet, sha256]: whether det_<id>.parquet and        *)
(* det_<id>.sha256 exist.  One pass of the loop is one step.               *)

\* a determinand whose snapshot file exists counts as done
AlreadyDone_snapshotonly(f) == f.parquet

\* det_out.exists() and det_hash.exists()
AlreadyDone(f) == f.parquet /\ f.sha256

\* what fetch_observations and snapshot_to_parquet can end in
Outcomes == {"ok", "fetch_raises", "to_parquet_raises", "hash_raises"}

\* the files of one determinand after the pass: to_parquet comes first, the
\* hash file second; a write that raises may leave its file behind (left)
FilesAfter(f, outcome, left) ==
    CASE outcome = "ok" -> [parquet |-> TRUE, sha256 |-> TRUE]
      [] outcome = "fetch_raises" -> f
      [] outcome = "to_parquet_raises" -> [f EXCEPT !.parquet = @ \/ left]
      [] outcome = "hash_raises" -> [parquet |-> TRUE, sha256 |-> f.sha256 \/ left]

\* the manifest row of one pass
ManifestRow(det, f, outcome, n) ==
    IF AlreadyDone(f)
    THEN [determinant_id |-> det, status |-> "skipped_exists", rows |-> NaN]
    ELSE IF outcome = "ok"
         THEN [determinant_id |-> det, status |-> "ok", rows |-> n]
         ELSE [determinant_id |-> det, status |-> "error", rows |-> NaN]

\* one pass of `for i, det in enumerate(determinands, start=1)`
IngestOne ==
    /\ allrun.i >= 1
    /\ allrun.i <= Len(allrun.determinands)
    /\ \E outcome \in Outcomes, n \in {0, 2}, left \in BOOLEAN :
          LET det == allrun.determinands[allrun.i]
              f == allrun.out_root[det]
          IN  allrun' =
                [allrun EXCEPT
                   !.i = @ + 1,
                   !.out_root[det] = IF AlreadyDone(f) THEN f
                                     ELSE FilesAfter(f, outcome, left),
                   !.manifest_rows = Append(@, ManifestRow(det, f, outcome, n))]
    /\ UNCHANGED <<eacfg, ig, fmVars, fbVars, lbVars, svVars, fpVars, paVars, idVars,
                   pbVars, clVars>>

\* manifest = pd.DataFrame(manifest_rows); manifest.to_parquet(manifest_path)
WriteManifest ==
    /\ allrun.i = Len(allrun.determinands) + 1
    /\ allrun.manifest = <<>>
    /\ allrun' = [allrun EXCEPT !.i = 0, !.manifest = <<allrun.manifest_rows>>]
    /\ UNCHANGED <<eacfg, ig, fmVars, fbVars, lbVars, svVars, fpVars, paVars, idVars,
                   pbVars, clVars>>

---------------------------------------------------------------------------
(* Inputs *)

Sites == {1, 2}
Days == {0, 1, 2}
LastDay == CHOOSE d \in Days : \A e \in Days : e <= d

\* determinand.notation as the clean layer writes it: strings of digits
DetT == StrId(<<7>>)     \* chlorophyll, the target
DetA == StrId(<<3>>)     \* predictor A
DetB == StrId(<<6>>)     \* predictor B

\* The result recorded for an observation: 100 * determinand + 10 * site + day,
\* so that a value in the output names the observation it was taken from
Reading(site, d, det) == 100 * det.s[1] + 10 * site + d

Obs(site, d, det) ==
    [site |-> site, time |-> Cell(d), det |-> det,
     value |-> Cell(Reading(site, d, det))]

\* tables of at most MaxRows rows drawn from dom
Tables(dom) == UNION {[1..n -> dom] : n \in 0..MaxRows}

AllCols == RequiredCols \cup {"_det_id_norm"}

DefaultConfig ==
    [determinand_cast |-> "str",
     window_start_year |-> 0,
     window_end_year |-> YearOf(LastDay),
     target_determinand_id |-> DetT,
     threshold_ugL |-> Reading(1, 1, DetT),
     predictor_ids |-> <<DetA, DetB>>,
     lookback_days |-> 1,
     add_missing_flags |-> TRUE,
     add_age_days |-> TRUE,
     add_days_since_last_chl |-> TRUE,
     feature_version |-> "FEAT_V1",
     snapshot_id |-> "snap"]

\* well-formed observations of several sites
CleanRows == {Obs(s, d, det) : s \in Sites, d \in Days, det \in {DetT, DetA, DetB}}

\* LabelConfig(); thresholds and values are in tenths of a ug/L
DefaultLabelConfig ==
    [chl_value_col |-> "chl_ugL", threshold_ugL |-> 200, label_col |-> "y",
     strictly_greater |-> TRUE, label_version |-> "LBL_V1"]

IdleFeatureBuilder ==
    /\ series = <<>>
    /\ fbcfg = [chl_lags |-> <<>>, chl_rolls |-> <<>>, chl_threshold |-> 0]
    /\ X = <<>>

IdleLabelBuilder ==
    /\ chl = <<>>
    /\ lcfg = DefaultLabelConfig
    /\ labelled = <<>>
    /\ gate = NoBalance

IdleFingerprints ==
    /\ fpin = [kind |-> "none", a |-> <<>>, b |-> <<>>]
    /\ fpout = <<>>

IdleParity ==
    /\ srccols = {}
    /\ Xs = <<>>

IdleIds ==
    /\ idin = [component |-> "none", cast |-> "none", target |-> IntId(0), column |-> <<>>]
    /\ idout = [done |-> FALSE, selected |-> {}]

NoResult == [done |-> FALSE, y_true |-> <<>>, y_pred |-> <<>>, fallback_class |-> 0]

IdlePersistence ==
    /\ pbin = <<>>
    /\ pbout = NoResult

\* SeasonalMeanBaseline.__init__: p_by_month = {}, global_p = 0.0
Unfitted == [fitted |-> FALSE, global_p |-> [sum |-> 0, count |-> 1], p_by_month |-> <<>>]
NoScores == [done |-> FALSE, y_true |-> <<>>, y_score |-> <<>>, y_pred |-> <<>>]

IdleSeasonal ==
    /\ smtrain = <<>>
    /\ smtest = <<>>
    /\ smfit = Unfitted
    /\ smout = NoScores

IdleBaselines ==
    /\ IdlePersistence
    /\ IdleSeasonal

IdleClean ==
    /\ raw = <<>>
    /\ ccfg = CleanConfigOf(<<>>, NoneDict, NoneDict)
    /\ cleaned = [NotCleaned EXCEPT !.status = "idle"]
    /\ recleaned = NotCleaned

IdleExt ==
    /\ IdleIngestor
    /\ IdleClean
    /\ files = NoFiles
    /\ IdleFingerprints
    /\ IdleParity
    /\ IdleIds
    /\ IdleBaselines

NewBuilder ==
    /\ builder = "new"
    /\ bdf = NoFrame
    /\ artifacts = NoArtifacts
    /\ feat = NotBuilt
    /\ prev = NotBuilt
    /\ runs = "none"

\* a builder whose construction succeeded, before its first build()
FreshBuilder ==
    /\ ValidateInputs(df, config) = "ok"
    /\ builder = "ok"
    /\ bdf = df
    /\ artifacts = NoArtifacts
    /\ feat = NotBuilt
    /\ prev = NotBuilt
    /\ runs = "none"

\* observations of one site as a raw export holds them: timestamps and
\* results that do not parse, and (with DirtyConfig) days outside the window
DirtyRows ==
    {[Obs(1, d, det) EXCEPT !.value = IF numeric THEN @ ELSE Garbage] :
        d \in Days, det \in {DetT, DetA}, numeric \in BOOLEAN}
    \cup {[Obs(1, 0, det) EXCEPT !.time = Garbage,
                                 !.value = IF numeric THEN @ ELSE Garbage] :
            det \in {DetT, DetA}, numeric \in BOOLEAN}

DirtyConfig == [DefaultConfig EXCEPT !.window_end_year = 0]

\* the rows of tests/test_feature_matrix_builder.py, on the model's days
TestRows == {Obs(1, 0, DetA), Obs(1, 1, DetT), Obs(1, 2, DetT)}

\* the feature switches and the comparison modes
OptionConfigs ==
    {[DefaultConfig EXCEPT !.determinand_cast = c, !.add_missing_flags = m,
                           !.add_age_days = a, !.add_days_since_last_chl = s,
                           !.predictor_ids = <<DetA>>] :
        c \in Casts, m \in BOOLEAN, a \in BOOLEAN, s \in BOOLEAN}

\* clean observations of two sites; raw observations of one site; the test
\* table under every switch
Init ==
    /\ \/ /\ df \in [cols : {AllCols}, rows : Tables(CleanRows)]
          /\ config = DefaultConfig
       \/ /\ df \in [cols : {AllCols}, rows : Tables(DirtyRows)]
          /\ config = DirtyConfig
       \/ /\ df \in [cols : {AllCols}, rows : Tables(TestRows)]
          /\ config \in OptionConfigs
    /\ FreshBuilder
    /\ IdleFeatureBuilder
    /\ IdleLabelBuilder
    /\ IdleExt

Next == Build

Spec == Init /\ [][Next]_vars

\* observations of predictor A that share site and timestamp and differ in
\* their result, with chlorophyll anchors on and after that timestamp
TiedObs(site, d, v) == [Obs(site, d, DetA) EXCEPT !.value = Cell(v)]

TiedRows ==
    {TiedObs(s, d, v) : s \in Sites, d \in {0, 1}, v \in {31, 32}}
    \cup {Obs(s, d, DetT) : s \in Sites, d \in {0, 1}}

InitTies ==
    /\ df \in [cols : {AllCols}, rows : Tables(TiedRows)]
    /\ config \in {[DefaultConfig EXCEPT !.predictor_ids = <<DetA>>, !.lookback_days = lb] :
                     lb \in {0, 1}}
    /\ FreshBuilder
    /\ IdleFeatureBuilder
    /\ IdleLabelBuilder
    /\ IdleExt

NextTies == Build

SpecTies == InitTies /\ [][NextTies]_vars

\* every way to lack required columns, to choose a comparison mode, a window
\* and a lookback; the builder is yet to be constructed
CfgChoices ==
    {[DefaultConfig EXCEPT !.determinand_cast = c, !.window_start_year = ws,
                           !.window_end_year = we, !.lookback_days = lb] :
        c \in Casts \cup {"float"}, ws \in {0, 1}, we \in {0, 1}, lb \in {-1, 0, 1, 2}}

InitCfg ==
    /\ df \in [cols : {AllCols \ S : S \in SUBSET RequiredCols},
               rows : {<<>>, <<Obs(1, 0, DetA), Obs(1, 1, DetT), Obs(1, 2, DetT)>>}]
    /\ config \in CfgChoices
    /\ NewBuilder
    /\ IdleFeatureBuilder
    /\ IdleLabelBuilder
    /\ IdleExt

NextCfg == Construct \/ Build

SpecCfg == InitCfg /\ [][NextCfg]_vars

\* scripts/run_phase2_build_features.py: tables of one or two sites, with or
\* without the value column, under every configuration choice
RunRows == {Obs(1, 1, DetT), Obs(2, 0, DetT), Obs(1, 0, DetA)}

InitRun ==
    /\ df \in [cols : {AllCols, AllCols \ {"result"}}, rows : Tables(RunRows)]
    /\ config \in CfgChoices
    /\ NewBuilder
    /\ IdleFeatureBuilder
    /\ IdleLabelBuilder
    /\ IdleExt

NextRun == Construct \/ RunBuild \/ Save

\* one clean table given to the feature-matrix builder and to the gate, with
\* chlorophyll values below, at and above the threshold, rows that either
\* drops, and a LabelConfig of the same threshold
EquivRows ==
    {Obs(1, d, DetT) : d \in Days}
    \cup {Obs(2, 0, DetT), Obs(1, 0, DetA),
          [Obs(1, 1, DetT) EXCEPT !.value = Garbage],
          [Obs(1, 1, DetT) EXCEPT !.value = Null],
          [Obs(1, 0, DetT) EXCEPT !.time = Garbage]}

InitEquiv ==
    /\ df \in [cols : {AllCols}, rows : Tables(EquivRows)]
    /\ config \in {[c EXCEPT !.predictor_ids = <<DetA>>, !.determinand_cast = cast] :
                     c \in {DefaultConfig, DirtyConfig}, cast \in {"str", "int"}}
    /\ FreshBuilder
    /\ IdleFeatureBuilder
    /\ chl = <<>>
    /\ lcfg = [DefaultLabelConfig EXCEPT !.threshold_ugL = config.threshold_ugL]
    /\ labelled = <<>>
    /\ gate = NoBalance
    /\ IdleExt

NextEquiv == RunBuild \/ RelabelMatrix \/ ClassBalance

SpecEquiv == InitEquiv /\ [][NextEquiv]_vars

\* a constructed builder on which build() and save() are called in any order
InitSeq ==
    /\ df \in [cols : {AllCols}, rows : Tables(RunRows)]
    /\ config \in {DefaultConfig, [DefaultConfig EXCEPT !.predictor_ids = <<DetA>>]}
    /\ FreshBuilder
    /\ IdleFeatureBuilder
    /\ IdleLabelBuilder
    /\ IdleExt

NextSeq == Build \/ SaveHeld

SpecSeq == InitSeq /\ [][NextSeq]_vars

\* the script runs to its end or to the first exception
SpecRun == InitRun /\ [][NextRun]_vars

\* FeatureBuilder inputs: frames of distinct timestamps in any row order,
\* values 1..MaxLen or null
Frames(n) ==
    {f \in [1..n -> [time : 0..(MaxLen - 1), chl : {Cell(v) : v \in 1..MaxLen} \cup {Null}]] :
        \A i, j \in 1..n : i # j => f[i].time # f[j].time}

FeatureConfigs ==
    {[chl_lags |-> <<1, 2>>, chl_rolls |-> r, chl_threshold |-> 1] :
        r \in {<<1>>, <<2>>, <<3, 7>>}}

InitRoll ==
    /\ series \in UNION {Frames(n) : n \in 1..MaxLen}
    /\ fbcfg \in FeatureConfigs
    /\ X = <<>>
    /\ df = NoFrame
    /\ config = DefaultConfig
    /\ NewBuilder
    /\ IdleLabelBuilder
    /\ IdleExt

NextRoll == BuildX

SpecRoll == InitRoll /\ [][NextRoll]_vars

\* LabelBuilder inputs: values around the threshold, in tenths of a ug/L
InitLabel ==
    /\ chl \in UNION {[1..n -> {Cell(199), Cell(200), Cell(201), Null}] : n \in 1..MaxLen}
    /\ lcfg \in {[DefaultLabelConfig EXCEPT !.strictly_greater = s] : s \in BOOLEAN}
    /\ labelled = <<>>
    /\ gate = NoBalance
    /\ df = NoFrame
    /\ config = DefaultConfig
    /\ NewBuilder
    /\ IdleFeatureBuilder
    /\ IdleExt

NextLabel == BuildLabels

SpecLabel == InitLabel /\ [][NextLabel]_vars

\* labelled rows of one or two sites in any row order, timestamps repeated
\* or not
LabelledRows == [site : Sites, time : 0..(MaxLen - 1), y : {0, 1}]

InitPersist ==
    /\ IdleIngestor
    /\ IdleClean
    /\ pbin \in UNION {[1..n -> LabelledRows] : n \in 1..MaxLen}
    /\ pbout = NoResult
    /\ IdleSeasonal
    /\ files = NoFiles
    /\ IdleFingerprints
    /\ IdleParity
    /\ IdleIds
    /\ df = NoFrame
    /\ config = DefaultConfig
    /\ NewBuilder
    /\ IdleFeatureBuilder
    /\ IdleLabelBuilder

NextPersist == PredictPersistence

SpecPersist == InitPersist /\ [][NextPersist]_vars

\* training frames over two months, frames to predict over three
TrainRows == [month : {1, 2}, y : {0, 1}]
TestRowsSeasonal == [month : {1, 2, 3}, y : {0, 1}]

InitSeasonal ==
    /\ IdleIngestor
    /\ IdleClean
    /\ smtrain \in UNION {[1..n -> TrainRows] : n \in 0..MaxLen}
    /\ smtest \in UNION {[1..n -> TestRowsSeasonal] : n \in 1..2}
    /\ smfit = Unfitted
    /\ smout = NoScores
    /\ IdlePersistence
    /\ files = NoFiles
    /\ IdleFingerprints
    /\ IdleParity
    /\ IdleIds
    /\ df = NoFrame
    /\ config = DefaultConfig
    /\ NewBuilder
    /\ IdleFeatureBuilder
    /\ IdleLabelBuilder

NextSeasonal == FitSeasonal \/ PredictSeasonal

SpecSeasonal == InitSeasonal /\ [][NextSeasonal]_vars

\* raw rows of one site as in tests/test_clean_layer.py: a duplicated key, a
\* negative and a non-numeric value, an unwanted determinand, a missing and a
\* disallowed unit, a timestamp that is no date
RawRow(t, det, v, unit) ==
    [site |-> 1, time |-> t, det |-> IntId(det), value |-> v, unit |-> unit]

RawRows ==
    {RawRow(Cell(0), 61, Cell(5), "ph"), RawRow(Cell(0), 61, Cell(7), "ph"),
     RawRow(Cell(1), 61, Cell(-5), "ph"), RawRow(Cell(1), 61, Garbage, "ph"),
     RawRow(Cell(0), 999, Cell(5), "ph"), RawRow(Cell(0), 61, Cell(5), NoUnit),
     RawRow(Garbage, 61, Cell(5), "ph"), RawRow(Cell(1), 61, Cell(20), "mg/l")}

StageCleanConfigs ==
    {[CleanConfigOf(<<61>>, au, mm) EXCEPT !.coerce_numeric_errors = c] :
        au \in {NoneDict, Dict(<<[k |-> 61, v |-> "ph"]>>)},
        mm \in {NoneDict, Dict(<<[k |-> 61, v |-> <<0, 14>>]>>)},
        c \in {"raise", "coerce"}}

\* one of the three stages is given its input: the feature-matrix builder, the
\* label builder or the clean builder
InitStages ==
    /\ \/ /\ df \in [cols : {AllCols}, rows : Tables(RunRows)]
          /\ config \in {DefaultConfig, DirtyConfig}
          /\ IdleLabelBuilder
          /\ IdleClean
       \/ /\ df = NoFrame
          /\ config = DefaultConfig
          /\ chl \in UNION {[1..n -> {Cell(199), Cell(201), Garbage, Null}] : n \in 1..MaxLen}
          /\ lcfg \in {[DefaultLabelConfig EXCEPT !.strictly_greater = s] : s \in BOOLEAN}
          /\ labelled = <<>>
          /\ gate = NoBalance
          /\ IdleClean
       \/ /\ df = NoFrame
          /\ config = DefaultConfig
          /\ IdleLabelBuilder
          /\ raw \in UNION {[1..n -> RawRows] : n \in 1..MaxLen}
          /\ ccfg \in StageCleanConfigs
          /\ cleaned = NotCleaned
          /\ recleaned = NotCleaned
    /\ NewBuilder
    /\ IdleFeatureBuilder
    /\ files = NoFiles
    /\ IdleFingerprints
    /\ IdleParity
    /\ IdleIds
    /\ IdleBaselines
    /\ IdleIngestor

NextStages == Construct \/ Build \/ BuildLabels \/ Clean

SpecStages == InitStages /\ [][NextStages]_vars

\* raw tables for the clean layer alone: two sites, two days and a missing
\* timestamp, two wanted determinands and one that is not wanted, duplicates
\* that differ in their value
KeyedRow(site, t, det, v) ==
    [site |-> site, time |-> t, det |-> IntId(det), value |-> v, unit |-> "ph"]

KeyedRows ==
    {KeyedRow(s, t, 61, v) : s \in {1, 2}, t \in {Cell(0), Cell(1), Null},
                             v \in {Cell(5), Cell(7)}}
    \cup {KeyedRow(1, Cell(0), 62, Cell(5)), KeyedRow(1, Cell(0), 999, Cell(5)),
          KeyedRow(1, Cell(1), 61, Garbage), KeyedRow(1, Garbage, 61, Cell(5))}

InitClean ==
    /\ raw \in UNION {[1..n -> KeyedRows] : n \in 1..MaxLen}
    /\ ccfg \in {[CleanConfigOf(<<61, 62>>, NoneDict, NoneDict) EXCEPT !.dedupe_keep = k] :
                   k \in {"last", "first"}}
    /\ cleaned = NotCleaned
    /\ recleaned = NotCleaned
    /\ IdleIngestor
    /\ files = NoFiles
    /\ IdleFingerprints
    /\ IdleParity
    /\ IdleIds
    /\ IdleBaselines
    /\ df = NoFrame
    /\ config = DefaultConfig
    /\ NewBuilder
    /\ IdleFeatureBuilder
    /\ IdleLabelBuilder

NextClean == Clean \/ CleanAgain

SpecClean == InitClean /\ [][NextClean]_vars

\* a catalogue of up to MaxDets determinands (unique() leaves each id once)
\* and an out_root that holds any of their files already
InitAll ==
    /\ \E n \in 0..MaxDets :
          \E found \in [1..n -> [parquet : BOOLEAN, sha256 : BOOLEAN]] :
             allrun = [determinands |-> [k \in 1..n |-> k], i |-> 1, found |-> found,
                       out_root |-> found, manifest_rows |-> <<>>, manifest |-> <<>>]
    /\ eacfg = [page_size |-> 0, max_retries |-> 0, backoff_s |-> 0,
                limit_pages |-> 0, point_notation |-> ""]
    /\ ig = NotFetching
    /\ IdleClean
    /\ files = NoFiles
    /\ IdleFingerprints
    /\ IdleParity
    /\ IdleIds
    /\ IdleBaselines
    /\ df = NoFrame
    /\ config = DefaultConfig
    /\ NewBuilder
    /\ IdleFeatureBuilder
    /\ IdleLabelBuilder

NextAll == IngestOne \/ WriteManifest

SpecAll == InitAll /\ [][NextAll]_vars

\* every EAConfig and call of fetch_observations the pager is exercised with
NoLimit == [set |-> FALSE, n |-> 0]
LimitOf(n) == [set |-> TRUE, n |-> n]

EAConfigs ==
    [page_size : {100, 300}, max_retries : 0..MaxRetries, backoff_s : {1, 2},
     limit_pages : {NoLimit, LimitOf(0), LimitOf(1), LimitOf(2)},
     point_notation : {"", "NW-88010013"}]

InitFetch ==
    /\ eacfg \in EAConfigs
    /\ ig = [NotFetching EXCEPT !.phase = "ready"]
    /\ allrun = NotRunning
    /\ IdleClean
    /\ files = NoFiles
    /\ IdleFingerprints
    /\ IdleParity
    /\ IdleIds
    /\ IdleBaselines
    /\ df = NoFrame
    /\ config = DefaultConfig
    /\ NewBuilder
    /\ IdleFeatureBuilder
    /\ IdleLabelBuilder

NextFetch == StartFetch \/ AttemptRows \/ AttemptEmpty \/ AttemptFails

SpecFetch == InitFetch /\ [][NextFetch]_vars

\* the three spellings of determinand 61, and another determinand
Spellings == {StrId(<<0, 6, 1>>), StrId(<<6, 1>>), IntId(61)}
OtherId == StrId(<<6, 2>>)

InitIds ==
    /\ IdleIngestor
    /\ IdleClean
    /\ \/ idin \in [component : {"feature", "gate"}, cast : Casts, target : Spellings,
                    column : UNION {[1..n -> Spellings \cup {OtherId}] : n \in 1..MaxLen}]
       \/ idin \in [component : {"clean"}, cast : {"none"}, target : Spellings,
                    column : UNION {[1..n -> Spellings \cup {OtherId}] : n \in 1..MaxLen}]
    /\ idout = [done |-> FALSE, selected |-> {}]
    /\ files = NoFiles
    /\ IdleFingerprints
    /\ IdleParity
    /\ IdleBaselines
    /\ df = NoFrame
    /\ config = DefaultConfig
    /\ NewBuilder
    /\ IdleFeatureBuilder
    /\ IdleLabelBuilder

NextIds == SelectRows

SpecIds == InitIds /\ [][NextIds]_vars

\* a source frame with or without a tn column, under configurations that
\* name it or not and repeat a lag or not
ParityFrames(n) ==
    {f \in [1..n -> [time : 0..(MaxLen - 1), chl : {Cell(1), Null}]] :
        \A i, j \in 1..n : i # j => f[i].time # f[j].time}

ParityConfigs ==
    {[chl_lags |-> l, chl_rolls |-> <<2>>, chl_threshold |-> 1,
      tn_col |-> tn, tn_lags |-> <<7>>, tn_rolls |-> <<30>>,
      add_missingness_flags |-> m] :
        l \in {<<1, 2>>, <<1, 1>>}, tn \in {"tn", ""}, m \in BOOLEAN}

InitParity ==
    /\ IdleIngestor
    /\ IdleClean
    /\ series \in UNION {ParityFrames(n) : n \in 0..MaxLen}
    /\ fbcfg \in ParityConfigs
    /\ srccols \in {{"chl"}, {"chl", "tn"}}
    /\ X = <<>>
    /\ Xs = <<>>
    /\ files = NoFiles
    /\ IdleFingerprints
    /\ IdleIds
    /\ IdleBaselines
    /\ df = NoFrame
    /\ config = DefaultConfig
    /\ NewBuilder
    /\ IdleLabelBuilder

NextParity == BuildSlices

SpecParity == InitParity /\ [][NextParity]_vars

\* mappings over two determinands, in either insertion order
UnitDicts ==
    {NoneDict, Dict(<<>>), Dict(<<[k |-> 61, v |-> "ph"]>>),
     Dict(<<[k |-> 61, v |-> "ph"], [k |-> 348, v |-> "mg/l"]>>),
     Dict(<<[k |-> 348, v |-> "mg/l"], [k |-> 61, v |-> "ph"]>>)}

RangeDicts ==
    {NoneDict, Dict(<<[k |-> 61, v |-> <<0, 14>>]>>),
     Dict(<<[k |-> 61, v |-> <<0, 14>>], [k |-> 348, v |-> <<0, 5>>]>>),
     Dict(<<[k |-> 348, v |-> <<0, 5>>], [k |-> 61, v |-> <<0, 14>>]>>)}

CleanConfigs ==
    {CleanConfigOf(<<61, 348>>, au, mm) : au \in UnitDicts, mm \in RangeDicts}

LabelConfigs ==
    {[DefaultLabelConfig EXCEPT !.strictly_greater = s, !.threshold_ugL = th] :
        s \in BOOLEAN, th \in {199, 200}}

InitFp ==
    /\ IdleIngestor
    /\ IdleClean
    /\ \/ fpin \in [kind : {"feature"}, a : OptionConfigs, b : OptionConfigs]
       \/ fpin \in [kind : {"label"}, a : LabelConfigs, b : LabelConfigs]
       \/ fpin \in [kind : {"clean"}, a : CleanConfigs, b : CleanConfigs]
    /\ fpout = <<>>
    /\ files = NoFiles
    /\ IdleParity
    /\ IdleIds
    /\ IdleBaselines
    /\ df = NoFrame
    /\ config = DefaultConfig
    /\ NewBuilder
    /\ IdleFeatureBuilder
    /\ IdleLabelBuilder

NextFp == Fingerprint

SpecFp == InitFp /\ [][NextFp]_vars

\* FeatureBuilder given a frame that holds several sites: the rows carry a
\* site column beside the DatetimeIndex; build() never reads it
SiteFrames(n) ==
    {f \in [1..n -> [time : 0..(MaxLen - 1), site : Sites,
                     chl : {Cell(v) : v \in 1..2} \cup {Null}]] :
        \A i, j \in 1..n : i # j => f[i].time # f[j].time}

InitSite ==
    /\ series \in UNION {SiteFrames(n) : n \in 1..MaxLen}
    /\ fbcfg \in FeatureConfigs
    /\ X = <<>>
    /\ df = NoFrame
    /\ config = DefaultConfig
    /\ NewBuilder
    /\ IdleLabelBuilder
    /\ IdleExt

NextSite == BuildX

SpecSite == InitSite /\ [][NextSite]_vars

---------------------------------------------------------------------------
(* What the claims speak of, read off the input table *)

PredictorIds == 1..Len(config.predictor_ids)

\* the observations of determinand id that the claims count: parseable
\* timestamp in the year window, numeric value
Usable(id) ==
    {i \in 1..Len(df.rows) :
        /\ df.rows[i].det = id
        /\ df.rows[i].time.ok
        /\ YearOf(df.rows[i].time.v) \in config.window_start_year..config.window_end_year
        /\ df.rows[i].value.ok}

\* usable observations of id at the site of output row r, at or before it
AtOrBefore(id, r) ==
    {i \in Usable(id) : df.rows[i].site = r.site /\ df.rows[i].time.v <= r.time}

\* the latest of them
Latest(id, r) ==
    {i \in AtOrBefore(id, r) :
        \A j \in AtOrBefore(id, r) : df.rows[j].time.v <= df.rows[i].time.v}

Built == runs # "none"
Returned == Built /\ feat.status = "ok"

\* C1: every non-null predictor value of an output row is the value of an
\* observation of that predictor at the same site at or before the anchor,
\* and no other such observation lies strictly between it and the anchor
C1_LatestAtOrBefore ==
    Returned =>
        \A n \in 1..Len(feat.rows) : \A k \in PredictorIds :
            LET r == feat.rows[n]
                id == config.predictor_ids[k]
            IN  r.p[k].val # NaN =>
                    \E i \in Latest(id, r) : df.rows[i].value.v = r.p[k].val

\* two observations at or before the anchor, the later one at the anchor's own
\* timestamp: that one is joined, with age 0
C1_Witness ==
    /\ Returned
    /\ \E n \in 1..Len(feat.rows) : \E k \in PredictorIds :
        LET r == feat.rows[n]
            id == config.predictor_ids[k]
        IN  /\ r.p[k].val # NaN
            /\ r.p[k].age_days = 0
            /\ AtOrBefore(id, r) # Latest(id, r)

\* C2: the latest at-or-before observation is kept exactly when its age is at
\* most lookback_days; older, the value, its timestamp and its age are null
\* and the flag is 1; a non-null value has 0 <= age_days <= lookback_days
C2_LookbackEnforced ==
    Returned =>
        \A n \in 1..Len(feat.rows) : \A k \in PredictorIds :
            LET r == feat.rows[n]
                c == r.p[k]
                L == Latest(config.predictor_ids[k], r)
                age == r.time - df.rows[CHOOSE i \in L : TRUE].time.v
            IN  /\ (L # {} /\ age <= config.lookback_days) =>
                      /\ \E i \in L : c.val = df.rows[i].value.v
                      /\ c.time = r.time - age
                      /\ config.add_age_days => c.age_days = age
                /\ (L # {} /\ age > config.lookback_days) =>
                      /\ c.val = NaN
                      /\ c.time = NaT
                      /\ config.add_age_days => c.age_days = NaN
                      /\ config.add_missing_flags => c.is_missing = 1
                /\ (c.val # NaN /\ config.add_age_days) =>
                      0 <= c.age_days /\ c.age_days <= config.lookback_days

\* one anchor with a predictor dropped as stale and another kept at exactly
\* lookback_days
C2_Witness ==
    /\ Returned
    /\ \E n \in 1..Len(feat.rows) : \E k, l \in PredictorIds :
        LET r == feat.rows[n]
        IN  /\ Latest(config.predictor_ids[k], r) # {}
            /\ r.p[k].val = NaN
            /\ r.p[l].val # NaN
            /\ r.p[l].age_days = config.lookback_days

\* C3: with add_missing_flags, is_missing is 1 exactly when the value is null
\* after lookback enforcement, and 0 otherwise
C3_MissingFlag ==
    (Returned /\ config.add_missing_flags) =>
        \A n \in 1..Len(feat.rows) : \A k \in PredictorIds :
            LET c == feat.rows[n].p[k]
            IN  /\ c.is_missing \in {0, 1}
                /\ c.is_missing = 1 <=> c.val = NaN
                /\ c.val = NaN <=>
                      \A i \in Latest(config.predictor_ids[k], feat.rows[n]) :
                          feat.rows[n].time - df.rows[i].time.v > config.lookback_days

\* the three cases in one frame: a stale observation, none at all, a fresh one
C3_Witness ==
    /\ Returned
    /\ config.add_missing_flags
    /\ \E n, m \in 1..Len(feat.rows) : \E k, l \in PredictorIds :
        /\ feat.rows[n].p[k].is_missing = 1
        /\ Latest(config.predictor_ids[k], feat.rows[n]) # {}
        /\ feat.rows[n].p[l].is_missing = 1
        /\ Latest(config.predictor_ids[l], feat.rows[n]) = {}
        /\ feat.rows[m].p[k].is_missing = 0

\* the number of rows build() returned; NaN when it raised
RowCount(f) == IF f.status = "ok" THEN Len(f.rows) ELSE NaN

WithPredictors(ids) == [config EXCEPT !.predictor_ids = ids]

\* C4: build() returns one row per usable target observation, and the same
\* number for every choice of predictor_ids, none included
C4_RowsEqualAnchors ==
    Built =>
        /\ RowCount(feat) = Cardinality(Usable(config.target_determinand_id))
        /\ \A ids \in {<<>>, <<DetA>>, <<DetB>>, <<DetB, DetA>>} :
              RowCount(BuildFrame(WithPredictors(ids), df)) = RowCount(feat)

C9_BuildCompletes == Built => feat.status = "ok"

\* the columns of predictor id in frame f, built with predictor_ids ids
ColumnsOf(f, ids, id) ==
    LET k == CHOOSE k \in 1..Len(ids) : ids[k] = id
    IN  [n \in 1..Len(f.rows) |-> f.rows[n].p[k]]

\* C10: predictor A's columns are the same with and without predictor B, in
\* either position
C10_PredictorsIndependent ==
    Built =>
        \A ids \in {<<DetA>>, <<DetB, DetA>>} :
            LET g == BuildFrame(WithPredictors(ids), df)
            IN  /\ g.status = feat.status
                /\ ColumnsOf(g, ids, DetA) = ColumnsOf(feat, config.predictor_ids, DetA)

---------------------------------------------------------------------------
(* FeatureBuilder and LabelBuilder claims *)

\* the position of input row i in the time-sorted series
Rank(i) == 1 + Cardinality({j \in 1..Len(series) : series[j].time < series[i].time})

\* the value at position q of the time-sorted series; NaN when null
ValueAt(q) == to_numeric(series[CHOOSE i \in 1..Len(series) : Rank(i) = q].chl)

\* the positions t-w .. t-1 that hold a value
Prior(t, w) ==
    {q \in 1..Len(series) : t - w <= q /\ q <= t - 1 /\ ValueAt(q) # NaN}

RECURSIVE SumAt(_)
SumAt(S) ==
    IF S = {} THEN 0
    ELSE LET q == CHOOSE q \in S : TRUE IN ValueAt(q) + SumAt(S \ {q})

StrictlyIncreasing ==
    \A q, r \in 1..Len(series) :
        /\ ValueAt(q) # NaN
        /\ q < r => ValueAt(q) < ValueAt(r)

\* C5: the rolling mean of window w at position t is the mean of the non-null
\* values at positions t-w .. t-1, null only when there is none; on a strictly
\* increasing series it is strictly below the value at t
C5_ShiftedRollingMean ==
    X # <<>> =>
        /\ Len(X) = Len(series)
        /\ \A t \in 1..Len(X) : \A k \in 1..Len(fbcfg.chl_rolls) :
            LET m == X[t].chl_roll_mean[k]
                w == fbcfg.chl_rolls[k]
            IN  /\ m.count = Cardinality(Prior(t, w))
                /\ m.sum = SumAt(Prior(t, w))
                /\ (StrictlyIncreasing /\ m.count > 0) =>
                      m.sum < ValueAt(t) * m.count

\* a strictly increasing series given out of time order, with a full window
\* and a partial one
C5_Witness ==
    /\ X # <<>>
    /\ StrictlyIncreasing
    /\ series[1].time > series[Len(series)].time
    /\ \E t, u \in 1..Len(X) : \E k \in 1..Len(fbcfg.chl_rolls) :
        /\ X[t].chl_roll_mean[k].count = fbcfg.chl_rolls[k]
        /\ fbcfg.chl_rolls[k] > 1
        /\ X[u].chl_roll_mean[k].count = 1

\* C6: y = 1 exactly when value > threshold with strictly_greater, when
\* value >= threshold without; [19.9, 20.0, 20.1] at 20.0 give [0, 0, 1]
C6_LabelThreshold ==
    labelled # <<>> =>
        /\ Len(labelled) = Len(chl)
        /\ \A i \in 1..Len(chl) :
            /\ labelled[i].y \in {0, 1}
            /\ labelled[i].y = 1 <=>
                  /\ chl[i].ok
                  /\ IF lcfg.strictly_greater
                     THEN chl[i].v > lcfg.threshold_ugL
                     ELSE chl[i].v >= lcfg.threshold_ugL

\* the test's frame under the strict rule
C6_Witness ==
    /\ chl = <<Cell(199), Cell(200), Cell(201)>>
    /\ lcfg.strictly_greater
    /\ lcfg.threshold_ugL = 200
    /\ labelled # <<>>
    /\ [i \in 1..3 |-> labelled[i].y] = <<0, 0, 1>>

---------------------------------------------------------------------------
(* Construction *)

InvalidSetup ==
    \/ RequiredCols \ df.cols # {}
    \/ config.determinand_cast \notin {"str", "int", "none"}
    \/ config.window_end_year < config.window_start_year
    \/ config.lookback_days <= 0

\* C8: construction raises ValueError exactly on a missing required column, an
\* unknown determinand_cast, window_end_year < window_start_year or
\* lookback_days <= 0; then there is no builder and build() never runs
C8_FailsAtConstruction ==
    /\ builder # "new" => (builder = "ValueError" <=> InvalidSetup)
    /\ builder = "ValueError" => bdf = NoFrame /\ ~Built /\ feat = NotBuilt
    /\ Built => ~InvalidSetup

\* a lookback of 0 as the only fault
C8_Witness ==
    /\ builder = "ValueError"
    /\ config.lookback_days = 0
    /\ RequiredCols \subseteq df.cols
    /\ config.determinand_cast = "str"
    /\ config.window_end_year = config.window_start_year
    /\ df.rows # <<>>


---------------------------------------------------------------------------
(* FeatureBuilder on a frame of several sites *)

\* input row at position q of the time-sorted frame
RowAt(q) == series[CHOOSE i \in 1..Len(series) : Rank(i) = q]

\* the positions before t that belong to the site of position t, latest first
SamePrior(t) == {q \in 1..(t - 1) : RowAt(q).site = RowAt(t).site}

\* the k-th latest earlier position of the same site, 0 when there is none
RECURSIVE KthPrior(_, _)
KthPrior(S, k) ==
    IF S = {} THEN 0
    ELSE LET m == CHOOSE q \in S : \A r \in S : r <= q
         IN  IF k = 1 THEN m ELSE KthPrior(S \ {m}, k - 1)

SiteLag(t, k) ==
    LET q == KthPrior(SamePrior(t), k)
    IN  IF q = 0 THEN NaN ELSE ValueAt(q)

\* C11: lag k, the previous-exceedance flag and days-since-previous of a row
\* are those of the k-th / the latest earlier row of the same site, null
\* (flag 0) when the site has no such row
C11_PerSiteFeatures ==
    X # <<>> =>
        \A t \in 1..Len(X) :
            /\ \A k \in 1..Len(fbcfg.chl_lags) :
                  X[t].chl_lag[k] = SiteLag(t, fbcfg.chl_lags[k])
            /\ X[t].prev_exceed_flag =
                  (IF SiteLag(t, 1) # NaN /\ SiteLag(t, 1) > fbcfg.chl_threshold
                   THEN 1 ELSE 0)
            /\ X[t].days_since_prev =
                  (IF SamePrior(t) = {} THEN NaN
                   ELSE RowAt(t).time - RowAt(KthPrior(SamePrior(t), 1)).time)


---------------------------------------------------------------------------
(* The build script's output files *)

ConstructionFailed == builder = "ValueError"
BuildFailed == runs # "none" /\ feat.status = "raised"
BuildSucceeded == runs # "none" /\ feat.status = "ok"
BothWritten == files.data.written /\ files.meta.written

---------------------------------------------------------------------------
(* Configuration fingerprints *)

\* a == b of two frozen dataclass instances of one kind
FieldsEqual(kind, a, b) ==
    IF kind = "clean"
    THEN /\ [a EXCEPT !.allowed_units = NoneDict, !.min_max_by_determinand = NoneDict]
            = [b EXCEPT !.allowed_units = NoneDict, !.min_max_by_determinand = NoneDict]
         /\ DictEq(a.allowed_units, b.allowed_units)
         /\ DictEq(a.min_max_by_determinand, b.min_max_by_determinand)
    ELSE a = b

\* C13: two configuration objects of one kind with equal fields have the same
\* fingerprint, whatever the insertion order of their mapping-valued fields
C13_FingerprintByValue ==
    fpout # <<>> =>
        (FieldsEqual(fpin.kind, fpin.a, fpin.b) => fpout[1] = fpout[2])


---------------------------------------------------------------------------
(* Column parity of the features built on time slices *)

---------------------------------------------------------------------------
(* Identifier spellings *)

\* C15: whichever spelling of 61 is configured and whichever spellings the
\* column holds, the rows selected are exactly those of determinand 61
C15_SpellingsEquivalent ==
    idout.done =>
        idout.selected = {i \in 1..Len(idin.column) : idin.column[i] \in Spellings}


---------------------------------------------------------------------------
(* PersistenceBaseline *)

\* the input frame in (site, time) order
Sorted == SortSiteTime(pbin)

FirstOfSite(d, i) == i = 1 \/ d[i - 1].site # d[i].site

\* frames that differ from f at most in the labels of sorted position i, of
\* later positions and of rows of other sites
Relabelled(f, i) ==
    LET d == SortSiteTime(f)
    IN  {g \in [1..Len(d) -> LabelledRows] :
            \A j \in 1..Len(d) :
                /\ g[j].site = d[j].site
                /\ g[j].time = d[j].time
                /\ (j < i /\ d[j].site = d[i].site) => g[j].y = d[j].y}

\* the three parts of C16 that concern shape, previous label and fallback
PersistenceShape ==
    pbout.done =>
        /\ Len(pbout.y_pred) = Len(pbin)
        /\ Len(pbout.y_true) = Len(pbin)
        /\ \A i \in 1..Len(pbin) :
            /\ pbout.y_true[i] = Sorted[i].y
            /\ ~FirstOfSite(Sorted, i) => pbout.y_pred[i] = Sorted[i - 1].y
            /\ FirstOfSite(Sorted, i) => pbout.y_pred[i] = pbout.fallback_class

\* C16: one prediction per row in (site, time) order; a non-first row of a
\* site gets the label of the row before it, a first row the fallback class;
\* no prediction changes when the label of its own row, of a later row or of
\* another site changes
C16_PersistencePrevious ==
    /\ PersistenceShape
    /\ pbout.done =>
          \A i \in 1..Len(pbin) : \A g \in Relabelled(pbin, i) :
              PersistencePredict(g).y_pred[i] = pbout.y_pred[i]


---------------------------------------------------------------------------
(* SeasonalMeanBaseline *)

TrainOf(m) == {i \in 1..Len(smtrain) : smtrain[i].month = m}
Ones(idx) == Cardinality({i \in idx : smtrain[i].y = 1})

\* the frames that differ from the frame predicted only in their labels
RelabelledTest ==
    {g \in [1..Len(smtest) -> TestRowsSeasonal] :
        \A i \in 1..Len(smtest) : g[i].month = smtest[i].month}

\* C17: every row is scored with the positive rate of its month in the
\* training frame, or with the global training rate when the month does not
\* occur there; the scores are the same for any labels of the frame predicted
C17_TrainOnlyScores ==
    smout.done =>
        /\ \A i \in 1..Len(smtest) :
            LET m == smtest[i].month
                s == smout.y_score[i]
            IN  /\ TrainOf(m) # {} =>
                      s = [sum |-> Ones(TrainOf(m)), count |-> Cardinality(TrainOf(m))]
                /\ (TrainOf(m) = {} /\ smtrain # <<>>) =>
                      s = [sum |-> Ones(1..Len(smtrain)), count |-> Len(smtrain)]
        /\ \A g \in RelabelledTest :
              SeasonalPredict(smfit, g).y_score = smout.y_score

\* the month of one row has a training rate strictly between 0 and 1 that
\* differs from the global rate, the month of another row is not in training
C17_Witness ==
    /\ smout.done
    /\ \E i, j \in 1..Len(smtest) :
        /\ TrainOf(smtest[i].month) # {}
        /\ smout.y_score[i].sum > 0
        /\ smout.y_score[i].sum < smout.y_score[i].count
        /\ smout.y_score[i] # smfit.global_p
        /\ TrainOf(smtest[j].month) = {}
        /\ smout.y_score[j] = smfit.global_p
        /\ smtest[i].y = 0


---------------------------------------------------------------------------
(* Inputs of the stages *)

---------------------------------------------------------------------------
(* C19 *)

\* C19: an attempt answered with an empty body ends the paging at once: the
\* attempt is not followed by a wait or by another attempt, nothing is raised,
\* and fetch_observations returns exactly the pages it had appended before,
\* which is the empty table when the empty body answers the first page.
C19_EmptyBodyEndsPaging ==
    /\ [](ig.last_resp = "empty" => ig.phase = "done" /\ ~ ENABLED NextFetch)
    /\ [][(ig.phase = "fetching" /\ ig'.last_resp = "empty")
          => /\ ig'.phase = "done"
             /\ ig'.error = NoError
             /\ ig'.attempt = ig.attempt + 1
             /\ ig'.waits = ig.waits
             /\ ig'.dfs = ig.dfs
             /\ ig'.result = ig.dfs
             /\ Len(ig'.result) = ig.page - 1
             /\ (ig.page = 1 => ig'.result = <<>>)]_vars

\* an empty body that came after a failed attempt and after one page of rows
C19_Witness ==
    /\ ig.phase = "done"
    /\ ig.last_resp = "empty"
    /\ ig.attempt >= 2
    /\ Len(ig.result) >= 1

---------------------------------------------------------------------------
(* C20 *)

PageWaits(cfg, k) == [i \in 1..k |-> cfg.backoff_s * i]

RetryState ==
    /\ ig.attempt >= 0
    /\ (eacfg.max_retries >= 1 => ig.attempt <= eacfg.max_retries)
    /\ (ig.phase = "fetching" => ig.attempt < eacfg.max_retries)
    \* a body that can be used ends the page: the next page starts, or the call
    \* is over
    /\ (ig.last_resp \in {"rows", "empty"}
          => \/ ig.phase = "done" /\ ig.waits = PageWaits(eacfg, ig.attempt - 1)
             \/ ig.phase = "fetching" /\ ig.attempt = 0 /\ ig.waits = <<>>)
    \* every failed attempt k was followed by a wait of backoff_s * k
    /\ (ig.last_resp \in Failures
          => /\ ig.waits = PageWaits(eacfg, ig.attempt)
             /\ ig.last_err = ig.last_resp
             /\ ig.phase \in {"fetching", "raised"})
    \* RuntimeError exactly after max_retries failures in a row, with the last
    \* one as its cause
    /\ (ig.error = "RuntimeError"
          => /\ ig.phase = "raised"
             /\ ig.attempt = (IF eacfg.max_retries >= 1 THEN eacfg.max_retries ELSE 0)
             /\ ig.waits = PageWaits(eacfg, ig.attempt)
             /\ ig.cause = ig.last_err
             /\ (ig.attempt >= 1 => ig.last_err \in Failures))
    /\ (ig.last_resp \in Failures /\ ig.attempt >= eacfg.max_retries
          => ig.error = "RuntimeError")

RetryStep ==
    (ig.phase = "fetching" /\ ig' # ig)
       => \/ ig'.page = ig.page /\ ig'.attempt = ig.attempt + 1
          \/ ig'.page = ig.page + 1 /\ ig'.attempt = 0 /\ ig'.phase = "fetching"

---------------------------------------------------------------------------
(* C21 *)

---------------------------------------------------------------------------
(* C22 *)

\* the frame that clean_dataframe hands to dedupe_and_sort
DedupeInput ==
    LET parsed == ParseDatetime(FilterDeterminands(ccfg, raw))
        num == CoerceNumeric(ccfg, parsed)
        units == HarmoniseUnits(ccfg, num.rows)
    IN  ApplyValidityRules(ccfg, units.rows).rows

KeyOf(r) == <<r.time, r.site, r.det.n>>

\* (sample_datetime, sampling_point, determinand_id) in ascending order, a
\* missing timestamp after every timestamp
KeyAscending(a, b) ==
    \/ a[1] # NaT /\ b[1] # NaT /\ a[1] < b[1]
    \/ a[1] # NaT /\ b[1] = NaT
    \/ a[1] = b[1] /\ a[2] < b[2]
    \/ a[1] = b[1] /\ a[2] = b[2] /\ a[3] <= b[3]

\* C22: the rows that dedupe_and_sort returns have pairwise different dedupe
\* keys, every key of its input is still there, with dedupe_keep = 'last' the
\* row of a key is the last row of that key in the input (with 'first' the
\* first), and the rows ascend in the sort keys.
C22_DedupedAndSorted ==
    cleaned.status = "ok"
       => LET in == DedupeInput
              out == cleaned.rows
          IN  /\ \A i, j \in 1..Len(out) : i < j => KeyOf(out[i]) # KeyOf(out[j])
              /\ \A i, j \in 1..Len(out) : i < j => KeyAscending(KeyOf(out[i]), KeyOf(out[j]))
              /\ \A i \in 1..Len(in) : \E k \in 1..Len(out) : KeyOf(out[k]) = KeyOf(in[i])
              /\ \A k \in 1..Len(out) :
                    \E i \in 1..Len(in) :
                       /\ in[i] = out[k]
                       /\ IF ccfg.dedupe_keep = "last"
                          THEN \A j \in (i + 1)..Len(in) : KeyOf(in[j]) # KeyOf(out[k])
                          ELSE \A j \in 1..(i - 1) : KeyOf(in[j]) # KeyOf(out[k])

\* keep = 'last' chose between two rows of one key that differ, and the rows
\* that stayed had to be put in order
C22_Witness ==
    /\ cleaned.status = "ok"
    /\ ccfg.dedupe_keep = "last"
    /\ Len(cleaned.rows) = 2
    /\ Len(DedupeInput) = 3
    /\ KeyOf(DedupeInput[1]) = KeyOf(DedupeInput[3])
    /\ DedupeInput[1] # DedupeInput[3]
    /\ cleaned.rows[1] = DedupeInput[2]
    /\ cleaned.rows[2] = DedupeInput[3]


---------------------------------------------------------------------------
(* C23 *)

\* sites ascend, and within a site the timestamps
SiteTimeAscending(rows) ==
    \A i, j \in 1..Len(rows) :
       i < j => \/ rows[i].site < rows[j].site
                \/ rows[i].site = rows[j].site /\ rows[i].time <= rows[j].time

\* C23: the rows build() returns ascend in (site, timestamp), whatever the row
\* order of the input table and whether one or two predictors (the run's
\* configuration) or none were joined.
C23_RowsInSiteTimeOrder ==
    Built =>
        /\ (feat.status = "ok" => SiteTimeAscending(feat.rows))
        /\ LET f == BuildFrame(WithPredictors(<<>>), df)
           IN  f.status = "ok" => SiteTimeAscending(f.rows)

\* a frame of two sites returned for a table that lists the later site and the
\* later day first
C23_Witness ==
    /\ Built
    /\ feat.status = "ok"
    /\ Len(feat.rows) = 3
    /\ Len(df.rows) = 3
    /\ Len(config.predictor_ids) = 2
    /\ feat.rows[1].site # feat.rows[3].site
    /\ df.rows[1].site > df.rows[3].site
    /\ df.rows[2].time.v > df.rows[3].time.v


---------------------------------------------------------------------------
(* C24 *)

\* the anchors of row i's site that come before it in time order
EarlierAnchors(rows, i) ==
    {j \in 1..Len(rows) :
       /\ rows[j].site = rows[i].site
       /\ \/ rows[j].time < rows[i].time
          \/ rows[j].time = rows[i].time /\ j < i}

\* C24: days_since_last_chl of an anchor is the number of days since the
\* latest earlier anchor of its site, and null when its site has no earlier
\* anchor; an anchor of another site never enters.
C24_DaysSinceLastChl ==
    (Returned /\ config.add_days_since_last_chl) =>
        \A i \in 1..Len(feat.rows) :
           LET e == EarlierAnchors(feat.rows, i)
           IN  feat.rows[i].days_since_last_chl =
                  IF e = {} THEN NaN
                  ELSE feat.rows[i].time
                         - (CHOOSE t \in {feat.rows[j].time : j \in e} :
                               \A j \in e : feat.rows[j].time <= t)

\* two anchors of one site followed by the first anchor of another
C24_Witness ==
    /\ Returned
    /\ Len(feat.rows) = 3
    /\ feat.rows[1].site = feat.rows[2].site
    /\ feat.rows[2].site # feat.rows[3].site
    /\ feat.rows[1].days_since_last_chl = NaN
    /\ feat.rows[2].days_since_last_chl = 1
    /\ feat.rows[3].days_since_last_chl = NaN
    /\ feat.rows[3].time > feat.rows[2].time


---------------------------------------------------------------------------
(* C25 *)

\* the rows of the input table that are observations of the first predictor
\* at the site and timestamp given
TiedAt(site, t) ==
    {i \in 1..Len(df.rows) :
       /\ df.rows[i].det = config.predictor_ids[1]
       /\ df.rows[i].site = site
       /\ df.rows[i].time = Cell(t)}

\* C25: an anchor whose predictor match has timestamp t carries the result of
\* the observation that is last in input order among the observations of that
\* predictor, site and timestamp; a second build() makes the same choice.
C25_LastOfTiesUsed ==
    /\ Returned =>
          \A n \in 1..Len(feat.rows) :
             LET c == feat.rows[n].p[1]
                 tied == TiedAt(feat.rows[n].site, c.time)
             IN  c.time # NaT =>
                   /\ tied # {}
                   /\ c.val = df.rows[CHOOSE i \in tied : \A j \in tied : j <= i].value.v
    /\ (runs = "again" /\ feat.status = "ok") => feat.rows = prev.rows

\* two builds that chose between two observations of one timestamp which
\* differ in their result, the later of them being the smaller one
C25_Witness ==
    /\ runs = "again"
    /\ feat.status = "ok"
    /\ \E n \in 1..Len(feat.rows) :
          LET c == feat.rows[n].p[1]
              tied == TiedAt(feat.rows[n].site, c.time)
          IN  /\ c.time # NaT
              /\ Cardinality(tied) = 2
              /\ c.val = 31
              /\ \E i \in tied : df.rows[i].value.v = 32


---------------------------------------------------------------------------
(* C26 *)

\* L = min(page_size, 250)
RequestedLimit == IF eacfg.page_size <= 250 THEN eacfg.page_size ELSE 250

\* the next request asks for the page after the pages fetched, and the pages
\* fetched were asked with skip = 0, L, 2L, ... and are not empty
PagesInOrder ==
    /\ ig.phase = "fetching"
          => /\ ig.skip = RequestedLimit * (ig.page - 1)
             /\ Len(ig.dfs) = ig.page - 1
    /\ \A k \in 1..Len(ig.dfs) :
          /\ ig.dfs[k].skip = RequestedLimit * (k - 1)
          /\ ig.dfs[k].n > 0

\* the call returns at the first empty page, or with limit_pages pages
StopsWhereClaimed ==
    /\ eacfg.limit_pages.set => Len(ig.dfs) <= eacfg.limit_pages.n
    /\ ig.phase = "done"
          => /\ ig.result = ig.dfs
             /\ \/ Len(ig.dfs) = ig.page - 1 /\ ig.last_resp \in {"rows", "empty"}
                \/ eacfg.limit_pages.set /\ Len(ig.dfs) = eacfg.limit_pages.n

\* C26: fetch_observations asks for the pages with skip = 0, L, 2L, ... in
\* that order, moves skip on by L only after a page with rows, stops at the
\* first empty page or after limit_pages pages, and returns the pages fetched
\* in page order.
C26_PagesInOrderUntilLimit == PagesInOrder /\ StopsWhereClaimed


---------------------------------------------------------------------------
(* C27 *)

BothExisted(k) == allrun.found[k].parquet /\ allrun.found[k].sha256

\* C27: a determinand is skipped exactly when its snapshot and its hash file
\* were both there (one without the other is fetched again); a pass that
\* fails leaves an 'error' row and the loop goes on; the manifest written at
\* the end has one row for each determinand, in catalogue order.
C27_ResumeAndManifest ==
    LET rows == allrun.manifest_rows
        dets == allrun.determinands
    IN  /\ Len(rows) <= Len(dets)
        /\ \A k \in 1..Len(rows) :
              /\ rows[k].determinant_id = dets[k]
              /\ rows[k].status \in {"skipped_exists", "ok", "error"}
              /\ (rows[k].status = "skipped_exists") = BothExisted(dets[k])
              /\ rows[k].status = "ok"
                    => allrun.out_root[dets[k]] = [parquet |-> TRUE, sha256 |-> TRUE]
        \* the loop is never stopped before the last determinand
        /\ (allrun.i >= 1 /\ allrun.i <= Len(dets)) => ENABLED IngestOne
        /\ (allrun.i >= 1 /\ Len(rows) < Len(dets)) => allrun.i = Len(rows) + 1
        /\ allrun.manifest # <<>>
              => /\ allrun.manifest[1] = rows
                 /\ Len(rows) = Len(dets)

\* a run that skipped one determinand, fetched again one whose hash file was
\* missing, failed on it, and went on to fetch the next
C27_Witness ==
    /\ allrun.manifest # <<>>
    /\ Len(allrun.manifest[1]) = 3
    /\ allrun.manifest[1][1].status = "skipped_exists"
    /\ allrun.found[2] = [parquet |-> TRUE, sha256 |-> FALSE]
    /\ allrun.manifest[1][2].status = "error"
    /\ allrun.manifest[1][3].status = "ok"


---------------------------------------------------------------------------
(* C28 *)

\* C28: whenever save() has written, the sidecar's n_rows is the number of
\* rows of the data file, its n_pos the sum of the file's y column, and its
\* feature_config_fingerprint is not null and is the fingerprint column of
\* the file.
C28_SidecarDescribesData ==
    files.meta.written =>
        /\ files.data.written
        /\ files.meta.content.n_rows = Len(files.data.content)
        /\ files.meta.content.n_pos = SumY(files.data.content)
        /\ files.meta.content.feature_config_fingerprint # <<>>
        /\ files.meta.content.feature_config_fingerprint
              = files.data.feature_config_fingerprint


---------------------------------------------------------------------------
(* C29 *)

\* C29: for values around the threshold the label of the feature matrix, the
\* label of LabelBuilder (strictly_greater) and the gate's y_exceed are all 1
\* exactly when value > threshold; LabelBuilder gives every row of a built
\* matrix the y it has; the gate's counts add up and its n_pos is the sum of
\* y of the matrix built from the same table and window.
C29_LabelsAgree ==
    /\ \A v \in (config.threshold_ugL - 1)..(config.threshold_ugL + 1) :
          LET one == IF v > config.threshold_ugL THEN 1 ELSE 0
          IN  /\ Exceeds(v, config.threshold_ugL) = one
              /\ LabelOf(lcfg, Cell(v)) = one
              /\ YExceed(v, config.threshold_ugL) = one
    /\ labelled # <<>>
          => /\ Len(labelled) = Len(feat.rows)
             /\ \A i \in 1..Len(labelled) : labelled[i].y = feat.rows[i].y
    /\ gate.status = "ok" => gate.n_pos + gate.n_neg = gate.n_total
    /\ (gate.status = "ok" /\ feat.status = "ok")
          => /\ gate.n_pos = SumY(feat.rows)
             /\ gate.n_total = Len(feat.rows)

\* a matrix with a value at the threshold and one above it, re-labelled, and
\* the gate's balance for the same table, which holds rows that both drop
C29_Witness ==
    /\ feat.status = "ok"
    /\ labelled # <<>>
    /\ gate.status = "ok"
    /\ gate.n_pos >= 1
    /\ gate.n_neg >= 1
    /\ \E i \in 1..Len(feat.rows) : feat.rows[i].chl_ugL = config.threshold_ugL
    /\ Len(df.rows) > gate.n_total


---------------------------------------------------------------------------
(* Missing values in FeatureBuilder *)

\* position t of the time-sorted series has a previous value
HasPrevious(t) == t > 1 /\ ValueAt(t - 1) # NaN

\* where a previous value exists the flag is 1 or 0 as that value exceeds the
\* threshold or not
FlagFollowsPrevious ==
    X # <<>> =>
        \A t \in 1..Len(X) :
            HasPrevious(t) =>
                X[t].prev_exceed_flag =
                    (IF ValueAt(t - 1) > fbcfg.chl_threshold THEN 1 ELSE 0)

\* where no previous value exists lag 1 and the window-1 rolling mean are null
LagAndRollNullWithoutPrevious ==
    X # <<>> =>
        \A t \in 1..Len(X) :
            ~ HasPrevious(t) =>
                /\ \A k \in 1..Len(fbcfg.chl_lags) :
                      fbcfg.chl_lags[k] = 1 => X[t].chl_lag[k] = NaN
                /\ \A k \in 1..Len(fbcfg.chl_rolls) :
                      fbcfg.chl_rolls[k] = 1 => X[t].chl_roll_mean[k].count = 0

\* C30: prev_exceed_flag at position t is 1 or 0 as the value at t-1 exceeds
\* the threshold or not, and is null wherever no previous value exists (the
\* first row, or a row whose previous value is null), as the lag and rolling
\* features are
C30_FlagNullWithoutPrevious ==
    /\ FlagFollowsPrevious
    /\ LagAndRollNullWithoutPrevious
    /\ X # <<>> =>
          \A t \in 1..Len(X) :
              ~ HasPrevious(t) => X[t].prev_exceed_flag = NaN

=============================================================================
